---- MODULE Spec2Model ----
(***************************************************************************)
(* Kendryte Canaan K230 clock controller (drivers/clk/clk-k230.c).         *)
(*                                                                         *)
(* A 32-bit register is modelled as the set of its set bit positions       *)
(* (a subset of 0..31), so that BIT(31) and the u32 wrap of shifts are     *)
(* exact.  A u64 is modelled as 8 little-endian bytes where its value can  *)
(* exceed the checker's integer range (PLL rates).                         *)
(***************************************************************************)
EXTENDS Integers, Sequences, FiniteSets, TLC

\* ---------------------------------------------------------------- bounds
\* Number of PLL operations, or of lookups, issued in one behaviour.
MaxOps == 2

\* Number of composite-clock operations issued in one behaviour.
MaxClkOps == 1

\* Number of operations the calling contexts issue, all together, when they run
\* concurrently.
MaxCtxOps == 3

\* ------------------------------------------------------- u32 as bit sets
Word == 0..31

RECURSIVE ValOf(_)
\* The number whose binary digits are the bit positions in S (all < 31).
ValOf(S) ==
    IF S = {} THEN 0
    ELSE LET b == CHOOSE x \in S : TRUE IN 2^b + ValOf(S \ {b})

\* The bit positions set in the non-negative number v (v < 2^31).
BitsOf(v) == {b \in 0..30 : (v \div 2^b) % 2 = 1}

\* BIT(n)
BIT(n) == {n}

\* (reg >> shift) & mask, as a number
ShrAnd(reg, shift, mask) ==
    ValOf({b \in BitsOf(mask) : b + shift \in reg})

\* reg & ~(mask << shift), the shift done in 32 bits
ClearField(reg, shift, mask) ==
    reg \ {b + shift : b \in BitsOf(mask)}

\* reg | ((val & mask) << shift), the shift done in 32 bits
OrField(reg, val, shift, mask) ==
    reg \cup {b + shift : b \in {x \in BitsOf(val) \cap BitsOf(mask) : x + shift <= 31}}

\* -------------------------------------------------- u64 as 8 LE bytes
Byte == 2 ^ 8

\* The u64 holding the number n (0 <= n < 2^31).
U64(n) == [i \in 1..8 |-> IF i <= 4 THEN (n \div Byte^(i - 1)) % Byte ELSE 0]

\* The u32 holding the number n (0 <= n < 2^31).
U32(n) == [i \in 1..4 |-> (n \div Byte^(i - 1)) % Byte]

RECURSIVE CarryLimbs(_)
CarryLimbs(c) == IF c = 0 THEN <<>> ELSE <<c % Byte>> \o CarryLimbs(c \div Byte)

RECURSIVE MulCarry(_, _, _, _)
MulCarry(a, m, i, c) ==
    IF i > Len(a) THEN CarryLimbs(c)
    ELSE LET t == a[i] * m + c
         IN  <<t % Byte>> \o MulCarry(a, m, i + 1, t \div Byte)

\* a * m of a byte string a and a number m < 2^18, exact (the result grows).
MulLimbs(a, m) == MulCarry(a, m, 1, 0)

\* a zero-extended or truncated to n bytes
Resize(a, n) == [i \in 1..n |-> IF i <= Len(a) THEN a[i] ELSE 0]

RECURSIVE AddCarry(_, _, _, _)
AddCarry(a, b, i, c) ==
    IF i > Len(a) THEN <<>>
    ELSE LET t == a[i] + b[i] + c
         IN  <<t % Byte>> \o AddCarry(a, b, i + 1, t \div Byte)

\* a + b modulo 2^(8 * Len(a)), Len(a) = Len(b)
AddLimbs(a, b) == AddCarry(a, b, 1, 0)

RECURSIVE DivFrom(_, _, _, _)
DivFrom(a, d, i, rem) ==
    IF i = 0 THEN [q |-> <<>>, r |-> rem]
    ELSE LET t    == rem * Byte + a[i]
             rest == DivFrom(a, d, i - 1, t % d)
         IN  [q |-> Append(rest.q, t \div d), r |-> rest.r]

\* Quotient (same length as a) and remainder of a byte string by d, 0 < d < 2^22.
DivLimbs(a, d) == DivFrom(a, d, Len(a), 0)

RECURSIVE Strip(_)
\* a without its leading (most significant) zero bytes
Strip(a) ==
    IF a = <<>> THEN <<>>
    ELSE IF a[Len(a)] = 0 THEN Strip(SubSeq(a, 1, Len(a) - 1)) ELSE a

\* ------------------------------------------------------------- state
VARIABLES
    pll_regs,     \* PLL register window: per PLL its div, bypass, gate, lock registers
    regs,         \* main clock register window: register offset -> contents
    pll_last,     \* the last PLL operation and its result
    last,         \* the last composite-clock operation (or lookup) and its result
    nops,         \* operations issued so far
    mux_parents,  \* num_parent of the hs_ospi_src descriptor handed to the builder
    pc,           \* where k230_clk_probe is
    idx,          \* the loop index i of the registration loop the probe is in
    probe_ret,    \* the value k230_clk_probe returned
    devres,       \* what the probe registered with the framework, in order
    cfg_ptr,      \* which .pll / .pll_div / .clk pointers of the static tables are set
    pll_count,    \* the framework's prepare and enable counts of each PLL
    hw_locks,     \* the PLLs whose hardware reaches lock when enabled
    clk_lock,     \* ksc->clk_lock: "free" or the context holding it
    pll_lock,     \* ksc->pll_lock: "free" or the context holding it
    ctx           \* per calling context: the operation it is in and where in it

build == <<mux_parents, hw_locks, pc, idx, probe_ret, devres, cfg_ptr, pll_count>>

conc == <<clk_lock, pll_lock, ctx>>

vars == <<pll_regs, regs, pll_last, last, nops, build, conc>>

\* Calling contexts: two threads, each on its own CPU, and an interrupt handler that
\* runs on the CPU of thread t1.
Contexts == {"t1", "t2", "irq"}

\* A context that is in no operation of the driver.
CtxIdle ==
    [pc |-> "idle", op |-> "none", id |-> 0, arg |-> <<>>, tmp |-> <<>>,
     todo |-> <<>>, ret |-> 0, nwrites |-> 0]

\* Both locks as spin_lock_init leaves them, no context in the driver.
ConcIdle ==
    /\ clk_lock = "free"
    /\ pll_lock = "free"
    /\ ctx = [c \in Contexts |-> CtxIdle]

\* ------------------------------------------------------------- errno
EINVAL == 22
EPERM == 1
ENOMEM == 12
EPROBE_DEFER == 517

Range(s) == {s[k] : k \in 1..Len(s)}

\* ------------------------------------------------------ PLL registers
K230_PLL_BYPASS_ENABLE == BIT(19)
K230_PLL_GATE_ENABLE == BIT(2)
K230_PLL_GATE_WRITE_ENABLE == BIT(18)
K230_PLL_OD_SHIFT == 24
K230_PLL_OD_MASK == 15
K230_PLL_R_SHIFT == 16
K230_PLL_R_MASK == 63
K230_PLL_F_SHIFT == 0
K230_PLL_F_MASK == 131071
K230_PLL_STATUS_MASK == BIT(0)
K230_PLL_NUM == 4

PllIds == 0..(K230_PLL_NUM - 1)

\* u64 result of (a * mul) / divisor with a 96-bit intermediate product, computed on
\* the 32-bit halves of a as the kernel helper does.
mul_u64_u32_div(a, mul, divisor) ==
    LET low  == SubSeq(a, 1, 4)
        high == SubSeq(a, 5, 8)
        rl   == Resize(MulLimbs(low, mul), 8)
        rh   == AddLimbs(Resize(MulLimbs(high, mul), 8), Resize(SubSeq(rl, 5, 8), 8))
        d1   == DivLimbs(rh, divisor)
        rl1  == SubSeq(rl, 1, 4) \o U32(d1.r)
        d2   == DivLimbs(rl1, divisor)
    IN  SubSeq(d2.q, 1, 4) \o SubSeq(d1.q, 1, 4)

k230_pll_hw_is_enabled(pll) ==
    K230_PLL_GATE_ENABLE \subseteq pll.gate

\* k230_pll_enable_hw setting the gate-enable bit without the write-enable bit.
k230_pll_enable_hw_no_we(pll) ==
    IF k230_pll_hw_is_enabled(pll) THEN pll
    ELSE [pll EXCEPT !.gate = @ \cup K230_PLL_GATE_ENABLE]

\* k230_pll_enable_hw writing the gate register without testing the gate-enable bit.
k230_pll_enable_hw_unconditional(pll) ==
    [pll EXCEPT !.gate = @ \cup K230_PLL_GATE_ENABLE \cup K230_PLL_GATE_WRITE_ENABLE]

\* The PLL's registers after k230_pll_enable_hw.
k230_pll_enable_hw(pll) ==
    IF k230_pll_hw_is_enabled(pll) THEN pll
    ELSE [pll EXCEPT !.gate = @ \cup K230_PLL_GATE_ENABLE \cup K230_PLL_GATE_WRITE_ENABLE]

\* k230_pll_disable clearing the gate-enable bit without setting the write-enable bit.
k230_pll_disable_no_we(pll) ==
    [pll EXCEPT !.gate = @ \ K230_PLL_GATE_ENABLE]

\* The PLL's registers after k230_pll_disable.
k230_pll_disable(pll) ==
    [pll EXCEPT !.gate = (@ \ K230_PLL_GATE_ENABLE) \cup K230_PLL_GATE_WRITE_ENABLE]

k230_pll_is_enabled(pll) == IF k230_pll_hw_is_enabled(pll) THEN 1 ELSE 0

\* k230_pll_get_rate with the F factor taken as the raw field (the + 1 forgotten).
k230_pll_get_rate_raw_f(pll, parent_rate) ==
    IF (pll.bypass \cap K230_PLL_BYPASS_ENABLE) # {} THEN parent_rate
    ELSE IF (pll.lock \cap K230_PLL_STATUS_MASK) = {} THEN U64(0)
    ELSE LET r  == ShrAnd(pll.div, K230_PLL_R_SHIFT, K230_PLL_R_MASK) + 1
             f  == ShrAnd(pll.div, K230_PLL_F_SHIFT, K230_PLL_F_MASK)
             od == ShrAnd(pll.div, K230_PLL_OD_SHIFT, K230_PLL_OD_MASK) + 1
         IN  mul_u64_u32_div(parent_rate, f, r * od)

\* k230_pll_get_rate with the lock test made before the bypass test.
k230_pll_get_rate_lock_first(pll, parent_rate) ==
    IF (pll.lock \cap K230_PLL_STATUS_MASK) = {} THEN U64(0)
    ELSE IF (pll.bypass \cap K230_PLL_BYPASS_ENABLE) # {} THEN parent_rate
    ELSE LET r  == ShrAnd(pll.div, K230_PLL_R_SHIFT, K230_PLL_R_MASK) + 1
             f  == ShrAnd(pll.div, K230_PLL_F_SHIFT, K230_PLL_F_MASK) + 1
             od == ShrAnd(pll.div, K230_PLL_OD_SHIFT, K230_PLL_OD_MASK) + 1
         IN  mul_u64_u32_div(parent_rate, f, r * od)

\* k230_pll_get_rate without the lock test.
k230_pll_get_rate_no_lock_test(pll, parent_rate) ==
    IF (pll.bypass \cap K230_PLL_BYPASS_ENABLE) # {} THEN parent_rate
    ELSE LET r  == ShrAnd(pll.div, K230_PLL_R_SHIFT, K230_PLL_R_MASK) + 1
             f  == ShrAnd(pll.div, K230_PLL_F_SHIFT, K230_PLL_F_MASK) + 1
             od == ShrAnd(pll.div, K230_PLL_OD_SHIFT, K230_PLL_OD_MASK) + 1
         IN  mul_u64_u32_div(parent_rate, f, r * od)

\* The rate of a PLL as a u64; parent_rate is a u64.
k230_pll_get_rate(pll, parent_rate) ==
    IF (pll.bypass \cap K230_PLL_BYPASS_ENABLE) # {} THEN parent_rate
    ELSE IF (pll.lock \cap K230_PLL_STATUS_MASK) = {} THEN U64(0)
    ELSE LET r  == ShrAnd(pll.div, K230_PLL_R_SHIFT, K230_PLL_R_MASK) + 1
             f  == ShrAnd(pll.div, K230_PLL_F_SHIFT, K230_PLL_F_MASK) + 1
             od == ShrAnd(pll.div, K230_PLL_OD_SHIFT, K230_PLL_OD_MASK) + 1
         IN  mul_u64_u32_div(parent_rate, f, r * od)

\* ------------------------------------------------- composite clocks
NULL == [null |-> TRUE]

K230_MUL == "K230_MUL"
K230_DIV == "K230_DIV"
K230_MUL_DIV == "K230_MUL_DIV"

K230_OSC24M == "K230_OSC24M"
K230_PLL == "K230_PLL"
K230_PLL_DIV == "K230_PLL_DIV"
K230_CLK_COMPOSITE == "K230_CLK_COMPOSITE"

K230_CLK_AUDIO_CLKDIV_OFFSET == 52
K230_CLK_PDM_CLKDIV_OFFSET == 64
K230_CLK_CODEC_ADC_MCLKDIV_OFFSET == 56
K230_CLK_CODEC_DAC_MCLKDIV_OFFSET == 60

K230_PLL0_DIV2 == 0
K230_PLL0_DIV3 == 1
K230_PLL0_DIV4 == 2
K230_PLL0_DIV16 == 3
K230_PLL1_DIV2 == 4
K230_PLL1_DIV3 == 5
K230_PLL1_DIV4 == 6
K230_PLL2_DIV2 == 7
K230_PLL2_DIV3 == 8
K230_PLL2_DIV4 == 9
K230_PLL3_DIV2 == 10
K230_PLL3_DIV3 == 11
K230_PLL3_DIV4 == 12
K230_PLL_DIV_NUM == 13

K230_CLK_NUM == 60
K230_CLK_MAX_PARENT_NUM == 6

k230_pll_div_cfgs ==
    [i \in 0..(K230_PLL_DIV_NUM - 1) |->
        CASE i = K230_PLL0_DIV2 -> [parent_name |-> "pll0", name |-> "pll0_div2", div |-> 2]
          [] i = K230_PLL0_DIV3 -> [parent_name |-> "pll0", name |-> "pll0_div3", div |-> 3]
          [] i = K230_PLL0_DIV4 -> [parent_name |-> "pll0", name |-> "pll0_div4", div |-> 4]
          [] i = K230_PLL0_DIV16 -> [parent_name |-> "pll0", name |-> "pll0_div16", div |-> 16]
          [] i = K230_PLL1_DIV2 -> [parent_name |-> "pll1", name |-> "pll1_div2", div |-> 2]
          [] i = K230_PLL1_DIV3 -> [parent_name |-> "pll1", name |-> "pll1_div3", div |-> 3]
          [] i = K230_PLL1_DIV4 -> [parent_name |-> "pll1", name |-> "pll1_div4", div |-> 4]
          [] i = K230_PLL2_DIV2 -> [parent_name |-> "pll2", name |-> "pll2_div2", div |-> 2]
          [] i = K230_PLL2_DIV3 -> [parent_name |-> "pll2", name |-> "pll2_div3", div |-> 3]
          [] i = K230_PLL2_DIV4 -> [parent_name |-> "pll2", name |-> "pll2_div4", div |-> 4]
          [] i = K230_PLL3_DIV2 -> [parent_name |-> "pll3", name |-> "pll3_div2", div |-> 2]
          [] i = K230_PLL3_DIV3 -> [parent_name |-> "pll3", name |-> "pll3_div3", div |-> 3]
          [] i = K230_PLL3_DIV4 -> [parent_name |-> "pll3", name |-> "pll3_div4", div |-> 4]]

K230_GATE_FORMAT(reg, bit, reverse) ==
    [gate_reg_off |-> reg, gate_bit_enable |-> bit, gate_bit_reverse |-> reverse]

K230_RATE_FORMAT(mul_min, mul_max, mul_shift, mul_mask, div_min, div_max, div_shift, div_mask, reg, bit, method) ==
    [rate_mul_min |-> mul_min, rate_mul_max |-> mul_max,
     rate_mul_shift |-> mul_shift, rate_mul_mask |-> mul_mask,
     rate_div_min |-> div_min, rate_div_max |-> div_max,
     rate_div_shift |-> div_shift, rate_div_mask |-> div_mask,
     rate_reg_off |-> reg, rate_write_enable_bit |-> bit, method |-> method]

K230_RATE_C_FORMAT(mul_min, mul_max, mul_shift, mul_mask, reg, bit) ==
    [rate_mul_min_c |-> mul_min, rate_mul_max_c |-> mul_max,
     rate_mul_shift_c |-> mul_shift, rate_mul_mask_c |-> mul_mask,
     rate_reg_off_c |-> reg, rate_write_enable_bit_c |-> bit]

K230_MUX_FORMAT(reg, shift, mask) ==
    [mux_reg_off |-> reg, mux_reg_shift |-> shift, mux_reg_mask |-> mask]


K230_CLK_OPS_ID_GATE_ONLY == 1
K230_CLK_OPS_ID_RATE_ONLY == 2
K230_CLK_OPS_ID_RATE_GATE == 3
K230_CLK_OPS_ID_MUX_ONLY == 4
K230_CLK_OPS_ID_MUX_GATE == 5
K230_CLK_OPS_ID_MUX_RATE == 6
K230_CLK_OPS_ID_ALL == 7
K230_CLK_OPS_ID_NUM == 8

K230_CPU0_SRC == 0
K230_CPU0_ACLK == 1
K230_CPU0_PLIC == 2
K230_CPU0_NOC_DDRCP4 == 3
K230_CPU0_PCLK == 4
K230_PMU_PCLK == 5
K230_HS_OSPI_SRC == 29
K230_LS_APB_SRC == 36
K230_LS_UART0_APB == 37
K230_LS_UART1_APB == 38
K230_LS_UART2_APB == 39
K230_LS_UART3_APB == 40
K230_LS_UART4_APB == 41
K230_LS_UART0 == 55
K230_LS_UART1 == 56
K230_LS_UART2 == 57
K230_LS_UART3 == 58
K230_LS_UART4 == 59

\* cpu0_src declared as a child of cpu0_aclk, a later entry of the table.
k230_cpu0_src_forward_parent ==
    [name |-> "cpu0_src", read_only |-> FALSE, flags |-> 0, num_parent |-> 1,
     parent |-> <<[type |-> K230_CLK_COMPOSITE, ref |-> K230_CPU0_ACLK]>>,
     rate_cfg |-> K230_RATE_FORMAT(1, 16, 0, 0, 16, 16, 1, 15, 0, 31, K230_MUL),
     rate_cfg_c |-> NULL,
     gate_cfg |-> K230_GATE_FORMAT(0, 0, FALSE),
     mux_cfg |-> NULL]

k230_cpu0_src ==
    [name |-> "cpu0_src", read_only |-> FALSE, flags |-> 0, num_parent |-> 1,
     parent |-> <<[type |-> K230_PLL_DIV, ref |-> K230_PLL0_DIV2]>>,
     rate_cfg |-> K230_RATE_FORMAT(1, 16, 0, 0, 16, 16, 1, 15, 0, 31, K230_MUL),
     rate_cfg_c |-> NULL,
     gate_cfg |-> K230_GATE_FORMAT(0, 0, FALSE),
     mux_cfg |-> NULL]

k230_cpu0_aclk ==
    [name |-> "cpu0_aclk", read_only |-> FALSE, flags |-> 0, num_parent |-> 1,
     parent |-> <<[type |-> K230_CLK_COMPOSITE, ref |-> K230_CPU0_SRC]>>,
     rate_cfg |-> K230_RATE_FORMAT(1, 1, 0, 0, 1, 8, 6, 7, 0, 31, K230_DIV),
     rate_cfg_c |-> NULL,
     gate_cfg |-> NULL,
     mux_cfg |-> NULL]

k230_cpu0_plic ==
    [name |-> "cpu0_plic", read_only |-> FALSE, flags |-> 0, num_parent |-> 1,
     parent |-> <<[type |-> K230_CLK_COMPOSITE, ref |-> K230_CPU0_SRC]>>,
     rate_cfg |-> K230_RATE_FORMAT(1, 1, 0, 0, 1, 8, 10, 7, 0, 31, K230_DIV),
     rate_cfg_c |-> NULL,
     gate_cfg |-> K230_GATE_FORMAT(0, 9, FALSE),
     mux_cfg |-> NULL]

k230_cpu0_noc_ddrcp4 ==
    [name |-> "cpu0_noc_ddrcp4", read_only |-> FALSE, flags |-> 0, num_parent |-> 1,
     parent |-> <<[type |-> K230_CLK_COMPOSITE, ref |-> K230_CPU0_SRC]>>,
     rate_cfg |-> NULL,
     rate_cfg_c |-> NULL,
     gate_cfg |-> K230_GATE_FORMAT(96, 7, FALSE),
     mux_cfg |-> NULL]

k230_cpu0_pclk ==
    [name |-> "cpu0_pclk", read_only |-> FALSE, flags |-> 0, num_parent |-> 1,
     parent |-> <<[type |-> K230_PLL_DIV, ref |-> K230_PLL0_DIV4]>>,
     rate_cfg |-> K230_RATE_FORMAT(1, 1, 0, 0, 1, 8, 15, 7, 0, 31, K230_DIV),
     rate_cfg_c |-> NULL,
     gate_cfg |-> K230_GATE_FORMAT(0, 13, FALSE),
     mux_cfg |-> NULL]

k230_pmu_pclk ==
    [name |-> "pmu_pclk", read_only |-> FALSE, flags |-> 0, num_parent |-> 1,
     parent |-> <<[type |-> K230_OSC24M, ref |-> 0]>>,
     rate_cfg |-> NULL,
     rate_cfg_c |-> NULL,
     gate_cfg |-> K230_GATE_FORMAT(16, 0, FALSE),
     mux_cfg |-> NULL]

k230_hs_ospi_src ==
    [name |-> "hs_ospi_src", read_only |-> FALSE, flags |-> 0, num_parent |-> 2,
     parent |-> <<[type |-> K230_PLL_DIV, ref |-> K230_PLL0_DIV2], [type |-> K230_PLL_DIV, ref |-> K230_PLL2_DIV4]>>,
     rate_cfg |-> NULL,
     rate_cfg_c |-> NULL,
     gate_cfg |-> K230_GATE_FORMAT(24, 24, FALSE),
     mux_cfg |-> K230_MUX_FORMAT(32, 18, 1)]

k230_ls_apb_src ==
    [name |-> "ls_apb_src", read_only |-> FALSE, flags |-> 0, num_parent |-> 1,
     parent |-> <<[type |-> K230_PLL_DIV, ref |-> K230_PLL0_DIV4]>>,
     rate_cfg |-> K230_RATE_FORMAT(1, 1, 0, 0, 1, 8, 0, 7, 48, 31, K230_DIV),
     rate_cfg_c |-> NULL,
     gate_cfg |-> K230_GATE_FORMAT(36, 0, FALSE),
     mux_cfg |-> NULL]

k230_ls_uart0_apb ==
    [name |-> "ls_uart0_apb", read_only |-> FALSE, flags |-> 0, num_parent |-> 1,
     parent |-> <<[type |-> K230_CLK_COMPOSITE, ref |-> K230_LS_APB_SRC]>>,
     rate_cfg |-> NULL,
     rate_cfg_c |-> NULL,
     gate_cfg |-> K230_GATE_FORMAT(36, 1, FALSE),
     mux_cfg |-> NULL]

k230_ls_uart1_apb ==
    [name |-> "ls_uart1_apb", read_only |-> FALSE, flags |-> 0, num_parent |-> 1,
     parent |-> <<[type |-> K230_CLK_COMPOSITE, ref |-> K230_LS_APB_SRC]>>,
     rate_cfg |-> NULL,
     rate_cfg_c |-> NULL,
     gate_cfg |-> K230_GATE_FORMAT(36, 2, FALSE),
     mux_cfg |-> NULL]

k230_ls_uart2_apb ==
    [name |-> "ls_uart2_apb", read_only |-> FALSE, flags |-> 0, num_parent |-> 1,
     parent |-> <<[type |-> K230_CLK_COMPOSITE, ref |-> K230_LS_APB_SRC]>>,
     rate_cfg |-> NULL,
     rate_cfg_c |-> NULL,
     gate_cfg |-> K230_GATE_FORMAT(36, 3, FALSE),
     mux_cfg |-> NULL]

k230_ls_uart3_apb ==
    [name |-> "ls_uart3_apb", read_only |-> FALSE, flags |-> 0, num_parent |-> 1,
     parent |-> <<[type |-> K230_CLK_COMPOSITE, ref |-> K230_LS_APB_SRC]>>,
     rate_cfg |-> NULL,
     rate_cfg_c |-> NULL,
     gate_cfg |-> K230_GATE_FORMAT(36, 4, FALSE),
     mux_cfg |-> NULL]

k230_ls_uart4_apb ==
    [name |-> "ls_uart4_apb", read_only |-> FALSE, flags |-> 0, num_parent |-> 1,
     parent |-> <<[type |-> K230_CLK_COMPOSITE, ref |-> K230_LS_APB_SRC]>>,
     rate_cfg |-> NULL,
     rate_cfg_c |-> NULL,
     gate_cfg |-> K230_GATE_FORMAT(36, 5, FALSE),
     mux_cfg |-> NULL]

k230_ls_uart0 ==
    [name |-> "ls_uart0", read_only |-> FALSE, flags |-> 0, num_parent |-> 1,
     parent |-> <<[type |-> K230_PLL_DIV, ref |-> K230_PLL0_DIV16]>>,
     rate_cfg |-> K230_RATE_FORMAT(1, 1, 0, 0, 1, 8, 0, 7, 44, 31, K230_DIV),
     rate_cfg_c |-> NULL,
     gate_cfg |-> K230_GATE_FORMAT(36, 16, FALSE),
     mux_cfg |-> NULL]

k230_ls_uart1 ==
    [name |-> "ls_uart1", read_only |-> FALSE, flags |-> 0, num_parent |-> 1,
     parent |-> <<[type |-> K230_PLL_DIV, ref |-> K230_PLL0_DIV16]>>,
     rate_cfg |-> K230_RATE_FORMAT(1, 1, 0, 0, 1, 8, 3, 7, 44, 31, K230_DIV),
     rate_cfg_c |-> NULL,
     gate_cfg |-> K230_GATE_FORMAT(36, 17, FALSE),
     mux_cfg |-> NULL]

k230_ls_uart2 ==
    [name |-> "ls_uart2", read_only |-> FALSE, flags |-> 0, num_parent |-> 1,
     parent |-> <<[type |-> K230_PLL_DIV, ref |-> K230_PLL0_DIV16]>>,
     rate_cfg |-> K230_RATE_FORMAT(1, 1, 0, 0, 1, 8, 6, 7, 44, 31, K230_DIV),
     rate_cfg_c |-> NULL,
     gate_cfg |-> K230_GATE_FORMAT(36, 18, FALSE),
     mux_cfg |-> NULL]

k230_ls_uart3 ==
    [name |-> "ls_uart3", read_only |-> FALSE, flags |-> 0, num_parent |-> 1,
     parent |-> <<[type |-> K230_PLL_DIV, ref |-> K230_PLL0_DIV16]>>,
     rate_cfg |-> K230_RATE_FORMAT(1, 1, 0, 0, 1, 8, 9, 7, 44, 31, K230_DIV),
     rate_cfg_c |-> NULL,
     gate_cfg |-> K230_GATE_FORMAT(36, 19, FALSE),
     mux_cfg |-> NULL]

k230_ls_uart4 ==
    [name |-> "ls_uart4", read_only |-> FALSE, flags |-> 0, num_parent |-> 1,
     parent |-> <<[type |-> K230_PLL_DIV, ref |-> K230_PLL0_DIV16]>>,
     rate_cfg |-> K230_RATE_FORMAT(1, 1, 0, 0, 1, 8, 12, 7, 44, 31, K230_DIV),
     rate_cfg_c |-> NULL,
     gate_cfg |-> K230_GATE_FORMAT(36, 20, FALSE),
     mux_cfg |-> NULL]

k230_clk_cfgs ==
    [i \in 0..(K230_CLK_NUM - 1) |->
        CASE i = K230_CPU0_SRC -> k230_cpu0_src
          [] i = K230_CPU0_ACLK -> k230_cpu0_aclk
          [] i = K230_CPU0_PLIC -> k230_cpu0_plic
          [] i = K230_CPU0_NOC_DDRCP4 -> k230_cpu0_noc_ddrcp4
          [] i = K230_CPU0_PCLK -> k230_cpu0_pclk
          [] i = K230_PMU_PCLK -> k230_pmu_pclk
          [] i = K230_HS_OSPI_SRC -> k230_hs_ospi_src
          [] i = K230_LS_APB_SRC -> k230_ls_apb_src
          [] i = K230_LS_UART0_APB -> k230_ls_uart0_apb
          [] i = K230_LS_UART1_APB -> k230_ls_uart1_apb
          [] i = K230_LS_UART2_APB -> k230_ls_uart2_apb
          [] i = K230_LS_UART3_APB -> k230_ls_uart3_apb
          [] i = K230_LS_UART4_APB -> k230_ls_uart4_apb
          [] i = K230_LS_UART0 -> k230_ls_uart0
          [] i = K230_LS_UART1 -> k230_ls_uart1
          [] i = K230_LS_UART2 -> k230_ls_uart2
          [] i = K230_LS_UART3 -> k230_ls_uart3
          [] i = K230_LS_UART4 -> k230_ls_uart4
          [] OTHER -> NULL]

\* Register offsets of the main window that the declared clocks use.
RegOffsets == {0, 16, 24, 32, 36, 44, 48, 96}

\* --------------------------------------------------- gate operations
\* k230_clk_enable setting the bit whatever gate_bit_reverse says.
k230_clk_enable_polarity_ignored(cfg, R) ==
    [R EXCEPT ![cfg.gate_cfg.gate_reg_off] = @ \cup BIT(cfg.gate_cfg.gate_bit_enable)]

\* The main window after k230_clk_enable.
k230_clk_enable(cfg, R) ==
    LET gate_cfg == cfg.gate_cfg
        reg      == R[gate_cfg.gate_reg_off]
    IN  [R EXCEPT ![gate_cfg.gate_reg_off] =
            IF gate_cfg.gate_bit_reverse
            THEN reg \ BIT(gate_cfg.gate_bit_enable)
            ELSE reg \cup BIT(gate_cfg.gate_bit_enable)]

\* The main window after k230_clk_disable.
k230_clk_disable(cfg, R) ==
    LET gate_cfg == cfg.gate_cfg
        reg      == R[gate_cfg.gate_reg_off]
    IN  [R EXCEPT ![gate_cfg.gate_reg_off] =
            IF gate_cfg.gate_bit_reverse
            THEN reg \cup BIT(gate_cfg.gate_bit_enable)
            ELSE reg \ BIT(gate_cfg.gate_bit_enable)]

\* The value k230_clk_is_enabled returns: reversed gate, BIT & reg; normal gate,
\* BIT & ~reg.
k230_clk_is_enabled(cfg, R) ==
    LET gate_cfg == cfg.gate_cfg
        reg      == R[gate_cfg.gate_reg_off]
    IN  IF gate_cfg.gate_bit_reverse
        THEN (IF (BIT(gate_cfg.gate_bit_enable) \cap reg) # {} THEN 1 ELSE 0)
        ELSE (IF (BIT(gate_cfg.gate_bit_enable) \cap (Word \ reg)) # {} THEN 1 ELSE 0)

\* ---------------------------------------------------- mux operations
\* Bits 0..7 of a register: the byte readb and writeb access at its address.
ByteLane == 0..7

\* The main window after k230_clk_set_parent: the u8 reg takes the low byte of
\* (mux_reg_mask & index) << mux_reg_shift, and writeb stores it.
k230_clk_set_parent(cfg, R, index) ==
    LET mux_cfg == cfg.mux_cfg
        reg     == OrField({}, index, mux_cfg.mux_reg_shift, mux_cfg.mux_reg_mask)
                       \cap ByteLane
    IN  [R EXCEPT ![mux_cfg.mux_reg_off] = (@ \ ByteLane) \cup reg]

\* The value k230_clk_get_parent returns: the byte readb reads.
k230_clk_get_parent(cfg, R) ==
    ValOf(R[cfg.mux_cfg.mux_reg_off] \cap ByteLane)

\* --------------------------------------------------- rate operations
Abs(x) == IF x < 0 THEN -x ELSE x

\* div_u64(a, d); ub is what the division yields when d = 0.
div_u64(a, d, ub) == IF d = 0 THEN ub ELSE a \div d

\* u32 x - 1, masked: 0 - 1 wraps to all ones.
DecMasked(x, mask) == IF x = 0 THEN mask ELSE x - 1

\* k230_clk_get_rate taking the multiplier of a K230_MUL_DIV clock from the primary
\* register even when a secondary register is configured.
k230_clk_get_rate_primary_only(cfg, R, parent_rate, ub) ==
    LET rate_cfg == cfg.rate_cfg
    IN  IF rate_cfg = NULL THEN parent_rate
        ELSE LET reg == R[rate_cfg.rate_reg_off]
                 md  ==
                   CASE rate_cfg.method = K230_MUL ->
                          [div |-> rate_cfg.rate_div_max,
                           mul |-> ShrAnd(reg, rate_cfg.rate_div_shift,
                                          rate_cfg.rate_div_mask) + 1]
                     [] rate_cfg.method = K230_DIV ->
                          [mul |-> rate_cfg.rate_mul_max,
                           div |-> ShrAnd(reg, rate_cfg.rate_div_shift,
                                          rate_cfg.rate_div_mask) + 1]
                     [] rate_cfg.method = K230_MUL_DIV ->
                          [mul |-> ShrAnd(reg, rate_cfg.rate_mul_shift,
                                          rate_cfg.rate_mul_mask),
                           div |-> ShrAnd(reg, rate_cfg.rate_div_shift,
                                          rate_cfg.rate_div_mask)]
             IN  div_u64(parent_rate * md.mul, md.div, ub)

\* The recalculated rate of a composite clock.
k230_clk_get_rate(cfg, R, parent_rate, ub) ==
    LET rate_cfg   == cfg.rate_cfg
        rate_cfg_c == cfg.rate_cfg_c
    IN  IF rate_cfg = NULL THEN parent_rate
        ELSE LET reg == R[rate_cfg.rate_reg_off]
                 md  ==
                   CASE rate_cfg.method = K230_MUL ->
                          [div |-> rate_cfg.rate_div_max,
                           mul |-> ShrAnd(reg, rate_cfg.rate_div_shift,
                                          rate_cfg.rate_div_mask) + 1]
                     [] rate_cfg.method = K230_DIV ->
                          [mul |-> rate_cfg.rate_mul_max,
                           div |-> ShrAnd(reg, rate_cfg.rate_div_shift,
                                          rate_cfg.rate_div_mask) + 1]
                     [] rate_cfg.method = K230_MUL_DIV ->
                          IF rate_cfg_c = NULL
                          THEN [mul |-> ShrAnd(reg, rate_cfg.rate_mul_shift,
                                               rate_cfg.rate_mul_mask),
                                div |-> ShrAnd(reg, rate_cfg.rate_div_shift,
                                               rate_cfg.rate_div_mask)]
                          ELSE [mul |-> ShrAnd(R[rate_cfg_c.rate_reg_off_c],
                                               rate_cfg_c.rate_mul_shift_c,
                                               rate_cfg_c.rate_mul_mask_c),
                                div |-> ShrAnd(reg, rate_cfg.rate_div_shift,
                                               rate_cfg.rate_div_mask)]
             IN  div_u64(parent_rate * md.mul, md.div, ub)

codec_clk ==
    <<2048000, 3072000, 4096000, 6144000, 8192000, 11289600, 12288000, 24576000,
      49152000>>

codec_div ==
    <<<<3125, 16>>, <<3125, 24>>, <<3125, 32>>, <<3125, 48>>, <<3125, 64>>,
      <<15625, 441>>, <<3125, 96>>, <<3125, 192>>, <<3125, 384>>>>

pdm_clk ==
    <<128000, 192000, 256000, 384000, 512000, 768000, 1024000, 1411200, 1536000,
      2048000, 2822400, 3072000, 4096000, 5644800, 6144000, 8192000, 11289600,
      12288000, 24576000, 49152000>>

pdm_div ==
    <<<<3125, 1>>, <<6250, 3>>, <<3125, 2>>, <<3125, 3>>, <<3125, 4>>, <<3125, 6>>,
      <<3125, 8>>, <<125000, 441>>, <<3125, 12>>, <<3125, 16>>, <<62500, 441>>,
      <<3125, 24>>, <<3125, 32>>, <<31250, 441>>, <<3125, 48>>, <<3125, 64>>,
      <<15625, 441>>, <<3125, 96>>, <<3125, 192>>, <<3125, 384>>>>

RECURSIVE ScanMul_last_tie(_, _, _, _, _, _)
\* The K230_MUL loop replacing the kept multiplier on an equal deviation too.
ScanMul_last_tie(perfect_divide, div_max, i, mul_max, abs_min, mul) ==
    IF i > mul_max THEN mul
    ELSE LET abs_current == Abs(perfect_divide - ((div_max * 1000) \div i))
         IN  IF abs_min >= abs_current
             THEN ScanMul_last_tie(perfect_divide, div_max, i + 1, mul_max, abs_current, i)
             ELSE ScanMul_last_tie(perfect_divide, div_max, i + 1, mul_max, abs_min, mul)

RECURSIVE ScanDiv_last_tie(_, _, _, _, _, _)
\* The K230_DIV loop replacing the kept divider on an equal deviation too.
ScanDiv_last_tie(perfect_divide, mul_max, i, div_max, abs_min, div) ==
    IF i > div_max THEN div
    ELSE LET abs_current == Abs(perfect_divide - ((i * 1000) \div mul_max))
         IN  IF abs_min >= abs_current
             THEN ScanDiv_last_tie(perfect_divide, mul_max, i + 1, div_max, abs_current, i)
             ELSE ScanDiv_last_tie(perfect_divide, mul_max, i + 1, div_max, abs_min, div)

RECURSIVE ScanMul(_, _, _, _, _, _)
\* The K230_MUL loop from i to mul_max: the multiplier kept and its deviation.
ScanMul(perfect_divide, div_max, i, mul_max, abs_min, mul) ==
    IF i > mul_max THEN mul
    ELSE LET abs_current == Abs(perfect_divide - ((div_max * 1000) \div i))
         IN  IF abs_min > abs_current
             THEN ScanMul(perfect_divide, div_max, i + 1, mul_max, abs_current, i)
             ELSE ScanMul(perfect_divide, div_max, i + 1, mul_max, abs_min, mul)

RECURSIVE ScanDiv(_, _, _, _, _, _)
\* The K230_DIV loop from i to div_max.
ScanDiv(perfect_divide, mul_max, i, div_max, abs_min, div) ==
    IF i > div_max THEN div
    ELSE LET abs_current == Abs(perfect_divide - ((i * 1000) \div mul_max))
         IN  IF abs_min > abs_current
             THEN ScanDiv(perfect_divide, mul_max, i + 1, div_max, abs_current, i)
             ELSE ScanDiv(perfect_divide, mul_max, i + 1, div_max, abs_min, div)

RECURSIVE TableScan_swapped(_, _, _, _, _, _)
\* The table loops taking div from the second column of the table and mul from the
\* first.
TableScan_swapped(clk_tab, div_tab, rate, j, div, mul) ==
    IF j > Len(clk_tab) THEN [div |-> div, mul |-> mul]
    ELSE IF rate = clk_tab[j]
         THEN TableScan_swapped(clk_tab, div_tab, rate, j + 1, div_tab[j][2], div_tab[j][1])
         ELSE TableScan_swapped(clk_tab, div_tab, rate, j + 1, div, mul)

\* The table loops falling back on the first entry of the table when no entry has the
\* rate.
TableScan_default_entry(clk_tab, div_tab, rate, j, div, mul) ==
    IF \E i \in j..Len(clk_tab) : rate = clk_tab[i]
    THEN LET i == CHOOSE i \in j..Len(clk_tab) : rate = clk_tab[i]
         IN  [div |-> div_tab[i][1], mul |-> div_tab[i][2]]
    ELSE [div |-> div_tab[1][1], mul |-> div_tab[1][2]]

RECURSIVE TableScan(_, _, _, _, _, _)
\* The table loops of K230_MUL_DIV from entry j on: every matching entry overwrites
\* (div, mul).
TableScan(clk_tab, div_tab, rate, j, div, mul) ==
    IF j > Len(clk_tab) THEN [div |-> div, mul |-> mul]
    ELSE IF rate = clk_tab[j]
         THEN TableScan(clk_tab, div_tab, rate, j + 1, div_tab[j][1], div_tab[j][2])
         ELSE TableScan(clk_tab, div_tab, rate, j + 1, div, mul)

\* k230_clk_find_approximate: its return value and the (div, mul) it leaves behind the
\* two pointers, which hold div and mul on entry.  ub is what (parent_rate * 1000) /
\* rate yields when rate = 0.
k230_clk_find_approximate(cfg, mul_min, mul_max, div_min, div_max, method, rate, parent_rate, div, mul, ub) ==
    LET rate_cfg       == cfg.rate_cfg
        perfect_divide == IF rate = 0 THEN ub ELSE (parent_rate * 1000) \div rate
    IN  CASE method = K230_MUL ->
               [ret |-> 0,
                mul |-> ScanMul(perfect_divide, div_max, mul_min + 1, mul_max,
                                Abs(perfect_divide - ((div_max * 1000) \div mul_min)),
                                mul_min),
                div |-> div_max]
          [] method = K230_DIV ->
               [ret |-> 0,
                div |-> ScanDiv(perfect_divide, mul_max, div_min + 1, div_max,
                                Abs(perfect_divide - ((div_min * 1000) \div mul_max)),
                                div_min),
                mul |-> mul_max]
          [] method = K230_MUL_DIV ->
               IF rate_cfg.rate_reg_off \in {K230_CLK_CODEC_ADC_MCLKDIV_OFFSET,
                                             K230_CLK_CODEC_DAC_MCLKDIV_OFFSET}
               THEN [ret |-> 0] @@ TableScan(codec_clk, codec_div, rate, 1, div, mul)
               ELSE IF rate_cfg.rate_reg_off \in {K230_CLK_AUDIO_CLKDIV_OFFSET,
                                                  K230_CLK_PDM_CLKDIV_OFFSET}
               THEN [ret |-> 0] @@ TableScan(pdm_clk, pdm_div, rate, 1, div, mul)
               ELSE [ret |-> -EINVAL, div |-> div, mul |-> mul]

\* k230_clk_round_rate going on to the division when the engine has failed.
k230_clk_round_rate_error_ignored(cfg, rate, parent_rate, ub) ==
    LET rate_cfg == cfg.rate_cfg
        fa == k230_clk_find_approximate(cfg,
                  rate_cfg.rate_mul_min, rate_cfg.rate_mul_max,
                  rate_cfg.rate_div_min, rate_cfg.rate_div_max,
                  rate_cfg.method, rate, parent_rate, 0, 0, ub)
    IN  div_u64(parent_rate * fa.mul, fa.div, ub)

\* The value k230_clk_round_rate returns.
k230_clk_round_rate(cfg, rate, parent_rate, ub) ==
    LET rate_cfg == cfg.rate_cfg
        fa == k230_clk_find_approximate(cfg,
                  rate_cfg.rate_mul_min, rate_cfg.rate_mul_max,
                  rate_cfg.rate_div_min, rate_cfg.rate_div_max,
                  rate_cfg.method, rate, parent_rate, 0, 0, ub)
    IN  IF fa.ret # 0 THEN 0
        ELSE div_u64(parent_rate * fa.mul, fa.div, ub)

\* The argument test without its rate > parent_rate leg.
set_rate_args_invalid_no_upper(rate, parent_rate) ==
    rate = 0 \/ parent_rate = 0

\* The argument test at the head of k230_clk_set_rate.
set_rate_args_invalid(rate, parent_rate) ==
    rate > parent_rate \/ rate = 0 \/ parent_rate = 0

\* set_rate_primary storing div and mul themselves where the code stores div - 1 and
\* mul - 1.
set_rate_primary_no_dec(rate_cfg, reg0, div, mul) ==
    LET reg1 ==
          CASE rate_cfg.method = K230_DIV ->
                 OrField(ClearField(reg0, rate_cfg.rate_mul_shift, rate_cfg.rate_mul_mask),
                         div, rate_cfg.rate_div_shift, rate_cfg.rate_div_mask)
            [] rate_cfg.method = K230_MUL ->
                 OrField(reg0, mul, rate_cfg.rate_div_shift, rate_cfg.rate_div_mask)
            [] OTHER ->
                 OrField(OrField(reg0, mul, rate_cfg.rate_mul_shift, rate_cfg.rate_mul_mask),
                         div, rate_cfg.rate_div_shift, rate_cfg.rate_div_mask)
    IN  reg1 \cup BIT(rate_cfg.rate_write_enable_bit)

\* The primary register k230_clk_set_rate writes when the clock has no second
\* (changeable multiplier) register; reg0 is the register read, its divisor field
\* cleared.
set_rate_primary(rate_cfg, reg0, div, mul) ==
    LET reg1 ==
          CASE rate_cfg.method = K230_DIV ->
                 OrField(ClearField(reg0, rate_cfg.rate_mul_shift, rate_cfg.rate_mul_mask),
                         DecMasked(div, rate_cfg.rate_div_mask),
                         rate_cfg.rate_div_shift, rate_cfg.rate_div_mask)
            [] rate_cfg.method = K230_MUL ->
                 OrField(reg0, DecMasked(mul, rate_cfg.rate_div_mask),
                         rate_cfg.rate_div_shift, rate_cfg.rate_div_mask)
            [] OTHER ->
                 OrField(OrField(reg0, mul, rate_cfg.rate_mul_shift, rate_cfg.rate_mul_mask),
                         div, rate_cfg.rate_div_shift, rate_cfg.rate_div_mask)
    IN  reg1 \cup BIT(rate_cfg.rate_write_enable_bit)

\* k230_clk_set_rate: the value it returns, the main window it leaves, the registers
\* it wrote in order, and the (div, mul) it programmed.
k230_clk_set_rate(cfg, R, rate, parent_rate) ==
    LET rate_cfg   == cfg.rate_cfg
        rate_cfg_c == cfg.rate_cfg_c
        fa == k230_clk_find_approximate(cfg,
                  rate_cfg.rate_mul_min, rate_cfg.rate_mul_max,
                  rate_cfg.rate_div_min, rate_cfg.rate_div_max,
                  rate_cfg.method, rate, parent_rate, 0, 0, 0)
        div == fa.div
        mul == fa.mul
        reg0 == ClearField(R[rate_cfg.rate_reg_off],
                           rate_cfg.rate_div_shift, rate_cfg.rate_div_mask)
    IN  IF set_rate_args_invalid(rate, parent_rate)
        THEN [ret |-> -EINVAL, regs |-> R, writes |-> <<>>, div |-> 0, mul |-> 0]
        ELSE IF cfg.read_only
        THEN [ret |-> -EPERM, regs |-> R, writes |-> <<>>, div |-> 0, mul |-> 0]
        ELSE IF fa.ret # 0
        THEN [ret |-> -EINVAL, regs |-> R, writes |-> <<>>, div |-> div, mul |-> mul]
        ELSE IF rate_cfg_c = NULL
        THEN [ret |-> 0,
              regs |-> [R EXCEPT ![rate_cfg.rate_reg_off] =
                           set_rate_primary(rate_cfg, reg0, div, mul)],
              writes |-> <<rate_cfg.rate_reg_off>>,
              div |-> div, mul |-> mul]
        ELSE LET reg   == OrField(reg0, div, rate_cfg.rate_div_shift,
                                  rate_cfg.rate_div_mask)
                 reg_c == OrField(ClearField(R[rate_cfg_c.rate_reg_off_c],
                                             rate_cfg_c.rate_mul_shift_c,
                                             rate_cfg_c.rate_mul_mask_c)
                                      \cup BIT(rate_cfg_c.rate_write_enable_bit_c),
                                  mul, rate_cfg_c.rate_mul_shift_c,
                                  rate_cfg_c.rate_mul_mask_c)
                 R1    == [R EXCEPT ![rate_cfg_c.rate_reg_off_c] = reg_c]
             IN  [ret |-> 0,
                  regs |-> [R1 EXCEPT ![rate_cfg.rate_reg_off] = reg],
                  writes |-> <<rate_cfg_c.rate_reg_off_c, rate_cfg.rate_reg_off>>,
                  div |-> div, mul |-> mul]

\* --------------------------------------- composite-clock operations
ClkIds == {i \in 0..(K230_CLK_NUM - 1) : k230_clk_cfgs[i] # NULL}

\* The descriptor of clock i as the builder and the operations see it.
Cfg(i) ==
    IF i = K230_HS_OSPI_SRC
    THEN [k230_clk_cfgs[i] EXCEPT !.num_parent = mux_parents]
    ELSE k230_clk_cfgs[i]

\* The index into k230_clk_ops_arr that k230_register_clk computes for a descriptor.
OpsId(cfg) ==
    (IF cfg.rate_cfg # NULL THEN K230_CLK_OPS_ID_RATE_ONLY ELSE 0)
    + (IF cfg.mux_cfg # NULL THEN K230_CLK_OPS_ID_MUX_ONLY ELSE 0)
    + (IF cfg.gate_cfg # NULL THEN K230_CLK_OPS_ID_GATE_ONLY ELSE 0)

\* k230_clk_ops_arr: which groups of operations each ops id carries.
k230_clk_ops_arr ==
    [id \in 0..(K230_CLK_OPS_ID_NUM - 1) |->
        [gate |-> id \in {K230_CLK_OPS_ID_GATE_ONLY, K230_CLK_OPS_ID_RATE_GATE,
                          K230_CLK_OPS_ID_MUX_GATE, K230_CLK_OPS_ID_ALL},
         rate |-> id \in {K230_CLK_OPS_ID_RATE_ONLY, K230_CLK_OPS_ID_RATE_GATE,
                          K230_CLK_OPS_ID_MUX_RATE, K230_CLK_OPS_ID_ALL},
         mux  |-> id \in {K230_CLK_OPS_ID_MUX_ONLY, K230_CLK_OPS_ID_MUX_GATE,
                          K230_CLK_OPS_ID_MUX_RATE, K230_CLK_OPS_ID_ALL}]]

\* Clock i is registered with the framework, which can then call its operations.
Registered(i) == <<"clk", i>> \in Range(devres)

HasGateOps(i) == Registered(i) /\ k230_clk_ops_arr[OpsId(Cfg(i))].gate
HasRateOps(i) == Registered(i) /\ k230_clk_ops_arr[OpsId(Cfg(i))].rate
HasMuxOps(i) == Registered(i) /\ k230_clk_ops_arr[OpsId(Cfg(i))].mux

\* Rates (Hz) requested of the composite clocks and rates of their parents; every
\* product the code forms with them stays far below 2^63, as in the model.
Targets == {0, 4, 300000, 500000, 1000001}
ParentRates == {0, 11, 1000000}

\* What a division by zero may yield: all ones (read as a long: -1) or 0.
DivZeroOutcomes == {-1, 0}

\* Parent indexes the framework may hand to set_parent (a u8).
MuxIndexes == {0, 1, 2}

NoOp ==
    [op |-> "none", id |-> 0, rate |-> 0, parent_rate |-> 0, index |-> 0, ret |-> 0,
     div |-> 0, mul |-> 0, writes |-> <<>>]

Op(name, i) == [NoOp EXCEPT !.op = name, !.id = i]

ClkEnable(i) ==
    /\ nops < MaxClkOps /\ HasGateOps(i)
    /\ regs' = k230_clk_enable(Cfg(i), regs)
    /\ last' = [Op("enable", i) EXCEPT !.writes = <<Cfg(i).gate_cfg.gate_reg_off>>]
    /\ nops' = nops + 1
    /\ UNCHANGED <<pll_regs, pll_last, build, conc>>

ClkDisable(i) ==
    /\ nops < MaxClkOps /\ HasGateOps(i)
    /\ regs' = k230_clk_disable(Cfg(i), regs)
    /\ last' = [Op("disable", i) EXCEPT !.writes = <<Cfg(i).gate_cfg.gate_reg_off>>]
    /\ nops' = nops + 1
    /\ UNCHANGED <<pll_regs, pll_last, build, conc>>

ClkIsEnabled(i) ==
    /\ nops < MaxClkOps /\ HasGateOps(i)
    /\ last' = [Op("is_enabled", i) EXCEPT !.ret = k230_clk_is_enabled(Cfg(i), regs)]
    /\ nops' = nops + 1
    /\ UNCHANGED <<pll_regs, regs, pll_last, build, conc>>

ClkSetParent(i, index) ==
    /\ nops < MaxClkOps /\ HasMuxOps(i)
    /\ regs' = k230_clk_set_parent(Cfg(i), regs, index)
    /\ last' = [Op("set_parent", i) EXCEPT !.index = index,
                    !.writes = <<Cfg(i).mux_cfg.mux_reg_off>>]
    /\ nops' = nops + 1
    /\ UNCHANGED <<pll_regs, pll_last, build, conc>>

ClkGetParent(i) ==
    /\ nops < MaxClkOps /\ HasMuxOps(i)
    /\ last' = [Op("get_parent", i) EXCEPT !.ret = k230_clk_get_parent(Cfg(i), regs)]
    /\ nops' = nops + 1
    /\ UNCHANGED <<pll_regs, regs, pll_last, build, conc>>

ClkGetRate(i, parent_rate) ==
    /\ nops < MaxClkOps /\ HasRateOps(i)
    /\ \E ub \in DivZeroOutcomes :
           last' = [Op("get_rate", i) EXCEPT !.parent_rate = parent_rate,
                        !.ret = k230_clk_get_rate(Cfg(i), regs, parent_rate, ub)]
    /\ nops' = nops + 1
    /\ UNCHANGED <<pll_regs, regs, pll_last, build, conc>>

ClkRoundRate(i, rate, parent_rate) ==
    /\ nops < MaxClkOps /\ HasRateOps(i)
    /\ \E ub \in DivZeroOutcomes :
           last' = [Op("round_rate", i) EXCEPT !.rate = rate, !.parent_rate = parent_rate,
                        !.ret = k230_clk_round_rate(Cfg(i), rate, parent_rate, ub)]
    /\ nops' = nops + 1
    /\ UNCHANGED <<pll_regs, regs, pll_last, build, conc>>

ClkSetRate(i, rate, parent_rate) ==
    /\ nops < MaxClkOps /\ HasRateOps(i)
    /\ LET sr == k230_clk_set_rate(Cfg(i), regs, rate, parent_rate)
       IN  /\ regs' = sr.regs
           /\ last' = [Op("set_rate", i) EXCEPT !.rate = rate,
                           !.parent_rate = parent_rate, !.ret = sr.ret,
                           !.div = sr.div, !.mul = sr.mul, !.writes = sr.writes]
    /\ nops' = nops + 1
    /\ UNCHANGED <<pll_regs, pll_last, build, conc>>

\* ------------------------------------------------- PLL operations
\* Parent rates handed to the PLL rate query: 0, the 24 MHz oscillator, the largest
\* 31-bit rate and 2^40 (a rate whose upper 32-bit half is not zero).
PllParentRates ==
    {U64(0), U64(24000000), U64(2147483647), <<0, 0, 0, 0, 0, 1, 0, 0>>}

NoPllOp == [op |-> "none", id |-> 0, parent_rate |-> <<>>, ret |-> 0, val |-> <<>>]

PllGetRate(p, rate) ==
    /\ nops < MaxOps
    /\ pll_last' = [op |-> "get_rate", id |-> p, parent_rate |-> rate, ret |-> 0,
                    val |-> k230_pll_get_rate(pll_regs[p], rate)]
    /\ nops' = nops + 1
    /\ UNCHANGED <<pll_regs, regs, last, build, conc>>

PllEnable(p) ==
    /\ nops < MaxOps
    /\ pll_regs' = [pll_regs EXCEPT ![p] = k230_pll_enable_hw(@)]
    /\ pll_last' = [op |-> "enable", id |-> p, parent_rate |-> <<>>, ret |-> 0, val |-> <<>>]
    /\ nops' = nops + 1
    /\ UNCHANGED <<regs, last, build, conc>>

PllDisable(p) ==
    /\ nops < MaxOps
    /\ pll_regs' = [pll_regs EXCEPT ![p] = k230_pll_disable(@)]
    /\ pll_last' = [op |-> "disable", id |-> p, parent_rate |-> <<>>, ret |-> 0, val |-> <<>>]
    /\ nops' = nops + 1
    /\ UNCHANGED <<regs, last, build, conc>>

PllIsEnabled(p) ==
    /\ nops < MaxOps
    /\ pll_last' = [op |-> "is_enabled", id |-> p, parent_rate |-> <<>>,
                    ret |-> k230_pll_is_enabled(pll_regs[p]), val |-> <<>>]
    /\ nops' = nops + 1
    /\ UNCHANGED <<pll_regs, regs, last, build, conc>>

\* Raw (R, F, OD) fields the boot firmware may leave in a PLL's divider register:
\* all minima, all maxima, a usual setting, the largest and the smallest ratio.
PllFactors ==
    {<<0, 0, 0>>, <<63, 131071, 15>>, <<2, 399, 1>>, <<0, 131071, 0>>, <<63, 0, 15>>}

\* Divider register contents for those fields, the reserved bits clear or set.
PllDivValues ==
    {OrField(OrField(OrField(junk, t[1], K230_PLL_R_SHIFT, K230_PLL_R_MASK),
                     t[2], K230_PLL_F_SHIFT, K230_PLL_F_MASK),
             t[3], K230_PLL_OD_SHIFT, K230_PLL_OD_MASK) :
        t \in PllFactors, junk \in {{}, {22, 23, 28, 31}}}

PllImages ==
    [div : PllDivValues,
     bypass : {{}, K230_PLL_BYPASS_ENABLE},
     gate : {{}, K230_PLL_GATE_ENABLE},
     lock : {{}, K230_PLL_STATUS_MASK}]

\* PLL as the reset state leaves it: enabled, locked, not bypassed, all factors 1.
PllReset ==
    [div |-> {}, bypass |-> {}, gate |-> K230_PLL_GATE_ENABLE, lock |-> K230_PLL_STATUS_MASK]

\* ------------------------------------------------------- graph build
\* What a registration call of the host framework may return.
HwResults == {0, -ENOMEM}

\* k230_register_clk rejecting a mux clock only when it has no parent at all.
k230_register_clk_off_by_one(cfg, num_parents, hw_ret) ==
    IF cfg.mux_cfg # NULL /\ num_parents < 1 THEN -EINVAL
    ELSE hw_ret

\* The value k230_register_clk returns for descriptor cfg when registering it with
\* num_parents parents; hw_ret is what devm_clk_hw_register returns if it is reached.
k230_register_clk(cfg, num_parents, hw_ret) ==
    IF cfg.mux_cfg # NULL /\ num_parents < 2 THEN -EINVAL
    ELSE hw_ret

\* The parent count k230_register_clks hands to k230_register_clk: the declared count
\* for a mux clock, 1 for every other clock.
NumParentsPassed(cfg) == IF cfg.mux_cfg # NULL THEN cfg.num_parent ELSE 1

\* A failed registration that only ends the loop of k230_register_clks, the probe
\* going on to add the provider.
Fail_break(ret) ==
    /\ pc' = "provider"
    /\ probe_ret' = ret
    /\ UNCHANGED <<idx, devres, cfg_ptr, pll_count>>

\* A registration call returned ret # 0: every caller up to k230_clk_probe returns it.
Fail(ret) ==
    /\ pc' = "unwind"
    /\ probe_ret' = ret
    /\ UNCHANGED <<idx, devres, cfg_ptr, pll_count>>

\* One iteration of the loop of k230_register_plls, up to the lock wait of
\* k230_pll_prepare when k230_pll_init finds the PLL enabled.
RegisterPll ==
    /\ pc = "plls" /\ idx < K230_PLL_NUM
    /\ IF k230_pll_is_enabled(pll_regs[idx]) = 1
       THEN /\ pc' = "pll_prepare"
            /\ UNCHANGED <<idx, probe_ret, devres, cfg_ptr, pll_count>>
       ELSE \E hw_ret \in HwResults :
              IF hw_ret # 0 THEN Fail(hw_ret)
              ELSE /\ devres' = Append(devres, <<"pll", idx>>)
                   /\ cfg_ptr' = [cfg_ptr EXCEPT !.pll = @ \cup {idx}]
                   /\ idx' = IF idx + 1 < K230_PLL_NUM THEN idx + 1 ELSE 0
                   /\ pc' = IF idx + 1 < K230_PLL_NUM THEN "plls" ELSE "pll_divs"
                   /\ UNCHANGED <<probe_ret, pll_count>>
    /\ UNCHANGED <<pll_regs, regs, pll_last, last, nops, mux_parents, hw_locks, conc>>

\* k230_pll_prepare giving up the poll after one read (a poll with a timeout).
k230_pll_prepare_timeout(pll) == TRUE

\* k230_pll_prepare never seeing the lock-status bit.
k230_pll_prepare_never(pll) == FALSE

\* The condition on which readl_poll_timeout in k230_pll_prepare stops polling: the
\* register read has a bit of K230_PLL_STATUS_MASK set. The timeout argument is 0.
k230_pll_prepare(pll) == (pll.lock \cap K230_PLL_STATUS_MASK) # {}

\* One poll of readl_poll_timeout in k230_pll_prepare (no timeout): on lock
\* clk_prepare_enable goes on to k230_pll_enable, the PLL is counted prepared and
\* enabled and its registration completes.
PllPrepare ==
    /\ pc = "pll_prepare"
    /\ k230_pll_prepare(pll_regs[idx])
    /\ \E hw_ret \in HwResults :
          IF hw_ret # 0 THEN Fail(hw_ret)
          ELSE /\ pll_count' = [pll_count EXCEPT ![idx] = [prepare |-> 1, enable |-> 1]]
               /\ devres' = Append(devres, <<"pll", idx>>)
               /\ cfg_ptr' = [cfg_ptr EXCEPT !.pll = @ \cup {idx}]
               /\ idx' = IF idx + 1 < K230_PLL_NUM THEN idx + 1 ELSE 0
               /\ pc' = IF idx + 1 < K230_PLL_NUM THEN "plls" ELSE "pll_divs"
               /\ UNCHANGED probe_ret
    /\ pll_regs' = [pll_regs EXCEPT ![idx] = k230_pll_enable_hw(@)]
    /\ UNCHANGED <<regs, pll_last, last, nops, mux_parents, hw_locks, conc>>

\* The hardware reaches lock while the driver waits for it.
HwPllLocks ==
    /\ pc = "pll_prepare"
    /\ idx \in hw_locks
    /\ (pll_regs[idx].lock \cap K230_PLL_STATUS_MASK) = {}
    /\ pll_regs' = [pll_regs EXCEPT ![idx].lock = @ \cup K230_PLL_STATUS_MASK]
    /\ UNCHANGED <<regs, pll_last, last, nops, build, conc>>

\* One iteration of the loop of k230_register_pll_divs.
RegisterPllDiv ==
    /\ pc = "pll_divs" /\ idx < K230_PLL_DIV_NUM
    /\ \E hw_ret \in HwResults :
          IF hw_ret # 0 THEN Fail(hw_ret)
          ELSE /\ devres' = Append(devres, <<"pll_div", idx>>)
               /\ cfg_ptr' = [cfg_ptr EXCEPT !.pll_div = @ \cup {idx}]
               /\ idx' = IF idx + 1 < K230_PLL_DIV_NUM THEN idx + 1 ELSE 0
               /\ pc' = IF idx + 1 < K230_PLL_DIV_NUM THEN "pll_divs" ELSE "clkdevs"
               /\ UNCHANGED <<probe_ret, pll_count>>
    /\ UNCHANGED <<pll_regs, regs, pll_last, last, nops, mux_parents, hw_locks, conc>>

\* One iteration of the clkdev loop of k230_clk_init_plls.
RegisterClkdev ==
    /\ pc = "clkdevs" /\ idx < K230_PLL_DIV_NUM
    /\ \E hw_ret \in HwResults :
          IF hw_ret # 0 THEN Fail(hw_ret)
          ELSE /\ devres' = Append(devres, <<"clkdev", idx>>)
               /\ idx' = IF idx + 1 < K230_PLL_DIV_NUM THEN idx + 1 ELSE 0
               /\ pc' = IF idx + 1 < K230_PLL_DIV_NUM THEN "clkdevs" ELSE "clks"
               /\ UNCHANGED <<probe_ret, cfg_ptr, pll_count>>
    /\ UNCHANGED <<pll_regs, regs, pll_last, last, nops, mux_parents, hw_locks, conc>>

\* One iteration of the loop of k230_register_clks.
RegisterClk ==
    /\ pc = "clks" /\ idx < K230_CLK_NUM
    /\ IF k230_clk_cfgs[idx] = NULL
       THEN /\ idx' = IF idx + 1 < K230_CLK_NUM THEN idx + 1 ELSE 0
            /\ pc' = IF idx + 1 < K230_CLK_NUM THEN "clks" ELSE "provider"
            /\ UNCHANGED <<probe_ret, devres, cfg_ptr, pll_count>>
       ELSE \E hw_ret \in HwResults :
              LET ret == k230_register_clk(Cfg(idx), NumParentsPassed(Cfg(idx)), hw_ret)
              IN  IF ret # 0 THEN Fail(ret)
                  ELSE /\ devres' = Append(devres, <<"clk", idx>>)
                       /\ cfg_ptr' = [cfg_ptr EXCEPT !.clk = @ \cup {idx}]
                       /\ idx' = IF idx + 1 < K230_CLK_NUM THEN idx + 1 ELSE 0
                       /\ pc' = IF idx + 1 < K230_CLK_NUM THEN "clks" ELSE "provider"
                       /\ UNCHANGED <<probe_ret, pll_count>>
    /\ UNCHANGED <<pll_regs, regs, pll_last, last, nops, mux_parents, hw_locks, conc>>

\* devm_of_clk_add_hw_provider at the end of k230_clk_init_clks, and the return of
\* k230_clk_probe.
AddProvider ==
    /\ pc = "provider"
    /\ \E hw_ret \in HwResults :
          IF hw_ret # 0 THEN Fail(hw_ret)
          ELSE /\ devres' = Append(devres, <<"provider", 0>>)
               /\ pc' = "done"
               /\ probe_ret' = 0
               /\ UNCHANGED <<idx, cfg_ptr, pll_count>>
    /\ UNCHANGED <<pll_regs, regs, pll_last, last, nops, mux_parents, hw_locks, conc>>

\* After a failed probe the device-managed resources are released, last acquired
\* first.
DevresRelease ==
    /\ pc = "unwind"
    /\ IF devres = <<>>
       THEN pc' = "failed" /\ UNCHANGED devres
       ELSE devres' = SubSeq(devres, 1, Len(devres) - 1) /\ UNCHANGED pc
    /\ UNCHANGED <<pll_regs, regs, pll_last, last, nops, mux_parents, hw_locks, idx,
                   probe_ret, cfg_ptr, pll_count, conc>>

\* What k230_clk_hw_onecell_get returns for a clock specifier with args_count cells,
\* the first being index: an error, or the handle of ksc->clks[index].
k230_clk_hw_onecell_get(args_count, index) ==
    IF args_count # 1 THEN -EINVAL
    ELSE IF index >= K230_CLK_NUM THEN -EINVAL
    ELSE index

\* Indexes consumers ask for: declared clocks, holes of the table, the first index
\* past it.
LookupIndexes == {0, 6, 29, 59, 60}

\* A consumer asks the framework for clock `index`: the framework knows the provider
\* only while it is registered.
Lookup(args_count, index) ==
    /\ pc \in {"done", "failed"}
    /\ nops < MaxOps
    /\ last' = [Op("lookup", index) EXCEPT !.index = args_count,
                    !.ret = IF <<"provider", 0>> \in Range(devres)
                            THEN k230_clk_hw_onecell_get(args_count, index)
                            ELSE -EPROBE_DEFER]
    /\ nops' = nops + 1
    /\ UNCHANGED <<pll_regs, regs, pll_last, build, conc>>

\* --------------------------------------------------- specifications
RECURSIVE ClkSeq(_)
\* The declared clocks below index n, in table order.
ClkSeq(n) ==
    IF n = 0 THEN <<>>
    ELSE IF k230_clk_cfgs[n - 1] = NULL THEN ClkSeq(n - 1)
         ELSE Append(ClkSeq(n - 1), <<"clk", n - 1>>)

\* What a successful probe has registered.
BuiltDevres ==
    [i \in 1..K230_PLL_NUM |-> <<"pll", i - 1>>]
        \o [i \in 1..K230_PLL_DIV_NUM |-> <<"pll_div", i - 1>>]
        \o [i \in 1..K230_PLL_DIV_NUM |-> <<"clkdev", i - 1>>]
        \o ClkSeq(K230_CLK_NUM)
        \o <<<<"provider", 0>>>>

\* The state a successful probe of the declared table leaves, the PLLs having been
\* found enabled and locked.
Built ==
    /\ mux_parents = k230_hs_ospi_src.num_parent
    /\ pc = "done"
    /\ idx = 0
    /\ probe_ret = 0
    /\ devres = BuiltDevres
    /\ cfg_ptr = [pll |-> PllIds, pll_div |-> 0..(K230_PLL_DIV_NUM - 1), clk |-> ClkIds]
    /\ pll_count = [p \in PllIds |-> [prepare |-> 1, enable |-> 1]]
    /\ hw_locks = PllIds

\* Contents the boot firmware may leave in every register of the main window.
RegImages == {{}, Word, {b \in Word : b % 2 = 0}, {b \in Word : b % 2 = 1}}

\* PLL operations on a built clock tree.
InitPll ==
    /\ \E p \in PllIds, img \in PllImages :
           pll_regs = [q \in PllIds |-> IF q = p THEN img ELSE PllReset]
    /\ regs = [o \in RegOffsets |-> {}]
    /\ pll_last = NoPllOp
    /\ last = NoOp
    /\ nops = 0
    /\ Built
    /\ ConcIdle

NextPll ==
    \/ \E p \in PllIds, rate \in PllParentRates : PllGetRate(p, rate)
    \/ \E p \in PllIds : PllEnable(p)
    \/ \E p \in PllIds : PllDisable(p)
    \/ \E p \in PllIds : PllIsEnabled(p)

SpecPll == InitPll /\ [][NextPll]_vars

\* Composite-clock operations on a built clock tree.
InitClk ==
    /\ pll_regs = [q \in PllIds |-> PllReset]
    /\ \E img \in RegImages : regs = [o \in RegOffsets |-> img]
    /\ pll_last = NoPllOp
    /\ last = NoOp
    /\ nops = 0
    /\ Built
    /\ ConcIdle

NextClk ==
    \/ \E i \in ClkIds : ClkEnable(i)
    \/ \E i \in ClkIds : ClkDisable(i)
    \/ \E i \in ClkIds : ClkIsEnabled(i)
    \/ \E i \in ClkIds, index \in MuxIndexes : ClkSetParent(i, index)
    \/ \E i \in ClkIds : ClkGetParent(i)
    \/ \E i \in ClkIds, parent_rate \in ParentRates : ClkGetRate(i, parent_rate)
    \/ \E i \in ClkIds, rate \in Targets, parent_rate \in ParentRates :
           ClkRoundRate(i, rate, parent_rate)
    \/ \E i \in ClkIds, rate \in Targets, parent_rate \in ParentRates :
           ClkSetRate(i, rate, parent_rate)

SpecClk == InitClk /\ [][NextClk]_vars

\* The probe (graph build), then lookups by index.
InitBuild ==
    /\ \E p \in PllIds, gate \in {{}, K230_PLL_GATE_ENABLE}, lock \in {{}, K230_PLL_STATUS_MASK} :
           pll_regs = [q \in PllIds |->
                          IF q = p THEN [PllReset EXCEPT !.gate = gate, !.lock = lock]
                          ELSE PllReset]
    /\ regs = [o \in RegOffsets |-> {}]
    /\ pll_last = NoPllOp
    /\ last = NoOp
    /\ nops = 0
    /\ mux_parents \in {1, 2}
    /\ hw_locks \in {PllIds, {}}
    /\ ConcIdle
    /\ pc = "plls"
    /\ idx = 0
    /\ probe_ret = 0
    /\ devres = <<>>
    /\ cfg_ptr = [pll |-> {}, pll_div |-> {}, clk |-> {}]
    /\ pll_count = [p \in PllIds |-> [prepare |-> 0, enable |-> 0]]

NextBuild ==
    \/ RegisterPll
    \/ PllPrepare
    \/ HwPllLocks
    \/ RegisterPllDiv
    \/ RegisterClkdev
    \/ RegisterClk
    \/ AddProvider
    \/ DevresRelease
    \/ \E args_count \in 0..2, index \in LookupIndexes : Lookup(args_count, index)

SpecBuild == InitBuild /\ [][NextBuild]_vars

\* The probe with the poll loop of k230_pll_prepare and the PLL hardware both making
\* progress: the polling thread is scheduled again after each sleep, and a PLL that
\* is going to lock does lock.
SpecBuildFair == SpecBuild /\ WF_vars(PllPrepare) /\ WF_vars(HwPllLocks)

\* The probe run by a thread that is scheduled whenever it can take a step, on
\* hardware that locks the PLLs it is going to lock.
SpecBuildLive == SpecBuild /\ WF_vars(NextBuild)

\* ------------------------------------ descriptors outside the table
\* Descriptors of method K230_MUL_DIV, which no clock of k230_clk_cfgs uses: an audio
\* clock with both fields in one register of the audio table, a codec clock whose
\* multiplier is in a secondary register, and a clock whose register is in neither
\* table.
mul_div_audio ==
    [name |-> "audio", read_only |-> FALSE, flags |-> 0, num_parent |-> 1,
     parent |-> <<[type |-> K230_PLL_DIV, ref |-> K230_PLL0_DIV4]>>,
     rate_cfg |-> K230_RATE_FORMAT(4, 441, 16, 32767, 3125, 62500, 0, 65535,
                                   K230_CLK_AUDIO_CLKDIV_OFFSET, 31, K230_MUL_DIV),
     rate_cfg_c |-> NULL,
     gate_cfg |-> NULL,
     mux_cfg |-> NULL]

mul_div_codec ==
    [name |-> "codec", read_only |-> FALSE, flags |-> 0, num_parent |-> 1,
     parent |-> <<[type |-> K230_PLL_DIV, ref |-> K230_PLL0_DIV4]>>,
     rate_cfg |-> K230_RATE_FORMAT(0, 0, 0, 0, 3125, 15625, 0, 16383,
                                   K230_CLK_CODEC_ADC_MCLKDIV_OFFSET, 31, K230_MUL_DIV),
     rate_cfg_c |-> K230_RATE_C_FORMAT(16, 441, 14, 511,
                                       K230_CLK_CODEC_DAC_MCLKDIV_OFFSET, 30),
     gate_cfg |-> NULL,
     mux_cfg |-> NULL]

mul_div_other ==
    [mul_div_audio EXCEPT !.name = "other", !.rate_cfg.rate_reg_off = 0]

\* ------------------------------------------ concurrent operations
\* The codec descriptor takes the slot after the clocks of k230_clk_cfgs.
LockCodecId == K230_CLK_NUM

\* The descriptor behind the id of a call.
LockCfg(id) == IF id = LockCodecId THEN mul_div_codec ELSE Cfg(id)

\* The registers of the main window the calls use.
LockOffsets ==
    RegOffsets \cup {K230_CLK_CODEC_ADC_MCLKDIV_OFFSET, K230_CLK_CODEC_DAC_MCLKDIV_OFFSET}

\* The calls made concurrently: operations of clocks that share register 0x0 (cpu0_src:
\* gate bit 0 and multiplier field; cpu0_plic: gate bit 9 and divider field), the mux
\* of hs_ospi_src, a rate change that writes two registers (the codec descriptor), and
\* the gate of PLL 0.
LockCalls ==
    {[op |-> "clk_enable",     id |-> K230_CPU0_SRC,    arg |-> <<>>],
     [op |-> "clk_disable",    id |-> K230_CPU0_PLIC,   arg |-> <<>>],
     [op |-> "clk_is_enabled", id |-> K230_CPU0_SRC,    arg |-> <<>>],
     [op |-> "clk_get_rate",   id |-> K230_CPU0_PLIC,   arg |-> <<1000000>>],
     [op |-> "clk_set_rate",   id |-> K230_CPU0_SRC,    arg |-> <<500000, 1000000>>],
     [op |-> "clk_set_parent", id |-> K230_HS_OSPI_SRC, arg |-> <<1>>],
     [op |-> "clk_get_parent", id |-> K230_HS_OSPI_SRC, arg |-> <<>>],
     [op |-> "clk_set_rate",   id |-> LockCodecId,      arg |-> <<2048000, 2100000>>],
     [op |-> "pll_enable",     id |-> 0,                arg |-> <<>>],
     [op |-> "pll_disable",    id |-> 0,                arg |-> <<>>]}

IsPllOp(op) == op \in {"pll_enable", "pll_disable"}

\* The operations the framework calls under its enable lock, taken with interrupts
\* disabled; only these may be called from an interrupt handler.
AtomicOps == {"clk_enable", "clk_disable", "clk_is_enabled", "pll_enable", "pll_disable"}

\* guard(spinlock), i.e. spin_lock: the lock is taken with interrupts left as they are.
guard_spinlock_irqs_off == FALSE

\* Interrupts are enabled on the CPU of thread t1.
IrqsEnabled ==
    /\ ~(ctx["t1"].pc # "idle" /\ ctx["t1"].op \in AtomicOps)
    /\ ~(guard_spinlock_irqs_off /\ "t1" \in {clk_lock, pll_lock})

\* Context c is executing: thread t1 is not while the handler runs on its CPU.
CanRun(c) == c = "t1" => ctx["irq"].pc = "idle"

\* spin_lock acquiring every time, whoever holds the lock.
spin_lock_no_wait(lock) == TRUE

\* spin_lock gets past a lock that is free; otherwise the caller spins.
spin_lock(lock) == lock = "free"

\* The main window after the whole operation, were it applied to window R at once.
ClkEffect(call, R) ==
    CASE call.op = "clk_enable" -> k230_clk_enable(LockCfg(call.id), R)
      [] call.op = "clk_disable" -> k230_clk_disable(LockCfg(call.id), R)
      [] call.op = "clk_set_parent" -> k230_clk_set_parent(LockCfg(call.id), R, call.arg[1])
      [] call.op = "clk_set_rate" ->
             k230_clk_set_rate(LockCfg(call.id), R, call.arg[1], call.arg[2]).regs
      [] OTHER -> R

\* ClkWrites with the registers of a rate change in the opposite order.
ClkWrites_primary_first(call, R) ==
    CASE call.op \in {"clk_enable", "clk_disable"} -> <<LockCfg(call.id).gate_cfg.gate_reg_off>>
      [] call.op = "clk_set_parent" -> <<LockCfg(call.id).mux_cfg.mux_reg_off>>
      [] call.op = "clk_set_rate" ->
             LET w == k230_clk_set_rate(LockCfg(call.id), R, call.arg[1], call.arg[2]).writes
             IN  [n \in 1..Len(w) |-> w[Len(w) + 1 - n]]
      [] OTHER -> <<>>

\* The registers the operation writes, in order.
ClkWrites(call, R) ==
    CASE call.op \in {"clk_enable", "clk_disable"} -> <<LockCfg(call.id).gate_cfg.gate_reg_off>>
      [] call.op = "clk_set_parent" -> <<LockCfg(call.id).mux_cfg.mux_reg_off>>
      [] call.op = "clk_set_rate" ->
             k230_clk_set_rate(LockCfg(call.id), R, call.arg[1], call.arg[2]).writes
      [] OTHER -> <<>>

\* What the operation returns, having read window R.
ClkResult(call, R) ==
    CASE call.op = "clk_is_enabled" -> k230_clk_is_enabled(LockCfg(call.id), R)
      [] call.op = "clk_get_rate" -> k230_clk_get_rate(LockCfg(call.id), R, call.arg[1], 0)
      [] call.op = "clk_get_parent" -> k230_clk_get_parent(LockCfg(call.id), R)
      [] OTHER -> 0

\* The call a context is in.
CallOf(c) == [op |-> ctx[c].op, id |-> ctx[c].id, arg |-> ctx[c].arg]

\* The context returns ret to its caller.
Return(c, ret) == [CtxIdle EXCEPT !.ret = ret]

\* A context enters an operation and runs it up to its guard(spinlock): k230_clk_set_rate
\* returns from there when it rejects its arguments.
Call(c, call) ==
    /\ ctx[c].pc = "idle" /\ nops < MaxCtxOps /\ CanRun(c)
    /\ c = "irq" => (IrqsEnabled /\ call.op \in AtomicOps)
    /\ LET early == IF call.op = "clk_set_rate"
                    THEN k230_clk_set_rate(LockCfg(call.id), regs, call.arg[1], call.arg[2]).ret
                    ELSE 0
       IN  ctx' = [ctx EXCEPT ![c] =
                      IF early < 0 THEN Return(c, early)
                      ELSE [@ EXCEPT !.pc = "lock", !.op = call.op, !.id = call.id,
                                     !.arg = call.arg, !.ret = 0]]
    /\ nops' = nops + 1
    /\ UNCHANGED <<pll_regs, regs, pll_last, last, build, clk_lock, pll_lock>>

\* guard(spinlock)(&ksc->clk_lock) or (&ksc->pll_lock).
Lock(c) ==
    /\ ctx[c].pc = "lock" /\ CanRun(c)
    /\ IF IsPllOp(ctx[c].op)
       THEN spin_lock(pll_lock) /\ pll_lock' = c /\ UNCHANGED clk_lock
       ELSE spin_lock(clk_lock) /\ clk_lock' = c /\ UNCHANGED pll_lock
    /\ ctx' = [ctx EXCEPT ![c].pc =
                  CASE ctx[c].op = "pll_enable" -> "check"
                    [] ctx[c].op = "clk_set_parent" -> "write"
                    [] OTHER -> "read",
                           ![c].todo = ClkWrites(CallOf(c), regs)]
    /\ UNCHANGED <<pll_regs, regs, pll_last, last, nops, build>>

\* k230_pll_hw_is_enabled at the head of k230_pll_enable_hw.
Check(c) ==
    /\ ctx[c].pc = "check" /\ CanRun(c)
    /\ ctx' = [ctx EXCEPT ![c].tmp = pll_regs[ctx[c].id],
                          ![c].pc = IF k230_pll_hw_is_enabled(pll_regs[ctx[c].id])
                                    THEN "unlock" ELSE "read"]
    /\ UNCHANGED <<pll_regs, regs, pll_last, last, nops, build, clk_lock, pll_lock>>

\* The readl of the operation; an operation that writes nothing returns its value.
Read(c) ==
    /\ ctx[c].pc = "read" /\ CanRun(c)
    /\ IF IsPllOp(ctx[c].op)
       THEN ctx' = [ctx EXCEPT ![c].tmp = pll_regs[ctx[c].id], ![c].pc = "write"]
       ELSE ctx' = [ctx EXCEPT ![c].tmp = regs,
                               ![c].ret = ClkResult(CallOf(c), regs),
                               ![c].pc = IF ctx[c].todo = <<>> THEN "unlock" ELSE "write"]
    /\ UNCHANGED <<pll_regs, regs, pll_last, last, nops, build, clk_lock, pll_lock>>

\* The writel (writeb for set_parent) of the value computed from what was read.
Write(c) ==
    /\ ctx[c].pc = "write" /\ CanRun(c)
    /\ IF IsPllOp(ctx[c].op)
       THEN /\ pll_regs' = [pll_regs EXCEPT ![ctx[c].id].gate =
                               IF ctx[c].op = "pll_enable"
                               THEN k230_pll_enable_hw(ctx[c].tmp).gate
                               ELSE k230_pll_disable(ctx[c].tmp).gate]
            /\ ctx' = [ctx EXCEPT ![c].pc = "unlock", ![c].nwrites = @ + 1]
            /\ UNCHANGED regs
       ELSE LET off == Head(ctx[c].todo)
                R   == IF ctx[c].op = "clk_set_parent" THEN regs ELSE ctx[c].tmp
            IN  /\ regs' = [regs EXCEPT ![off] = ClkEffect(CallOf(c), R)[off]]
                /\ ctx' = [ctx EXCEPT ![c].todo = Tail(@), ![c].nwrites = @ + 1,
                                      ![c].pc = IF Len(ctx[c].todo) = 1
                                                THEN "unlock" ELSE "write"]
                /\ UNCHANGED pll_regs
    /\ UNCHANGED <<pll_last, last, nops, build, clk_lock, pll_lock>>

\* The return of an operation that wrote nothing leaving the lock held (a return
\* out of a lock/unlock pair in place of the guard).
Unlock_early_return_leak(c) ==
    /\ ctx[c].pc = "unlock" /\ CanRun(c)
    /\ IF ctx[c].nwrites = 0 THEN UNCHANGED <<clk_lock, pll_lock>>
       ELSE IF IsPllOp(ctx[c].op)
       THEN pll_lock' = "free" /\ UNCHANGED clk_lock
       ELSE clk_lock' = "free" /\ UNCHANGED pll_lock
    /\ ctx' = [ctx EXCEPT ![c] = Return(c, ctx[c].ret)]
    /\ UNCHANGED <<pll_regs, regs, pll_last, last, nops, build>>

\* The end of the guard's scope: the lock is released and the operation returns.
Unlock(c) ==
    /\ ctx[c].pc = "unlock" /\ CanRun(c)
    /\ IF IsPllOp(ctx[c].op)
       THEN pll_lock' = "free" /\ UNCHANGED clk_lock
       ELSE clk_lock' = "free" /\ UNCHANGED pll_lock
    /\ ctx' = [ctx EXCEPT ![c] = Return(c, ctx[c].ret)]
    /\ UNCHANGED <<pll_regs, regs, pll_last, last, nops, build>>

\* Gate register contents of PLL 0 when the contexts start.
LockGateImages == {{}, K230_PLL_GATE_ENABLE, Word}

InitLock ==
    /\ \E gate \in LockGateImages :
           pll_regs = [q \in PllIds |-> IF q = 0 THEN [PllReset EXCEPT !.gate = gate]
                                        ELSE PllReset]
    /\ \E img \in {{}, Word} : regs = [o \in LockOffsets |-> img]
    /\ pll_last = NoPllOp
    /\ last = NoOp
    /\ nops = 0
    /\ Built
    /\ ConcIdle

NextLock ==
    \/ \E c \in Contexts, call \in LockCalls : Call(c, call)
    \/ \E c \in Contexts : Lock(c)
    \/ \E c \in Contexts : Check(c)
    \/ \E c \in Contexts : Read(c)
    \/ \E c \in Contexts : Write(c)
    \/ \E c \in Contexts : Unlock(c)

SpecLock == InitLock /\ [][NextLock]_vars

\* ------------------------------------- rate functions on their own
\* The descriptors the operations are applied to on their own: two clocks of the
\* table, the K230_MUL_DIV descriptors, the audio descriptor on the other register of
\* each table (0x40, 0x3c), and a gate of reversed polarity, which no clock of
\* k230_clk_cfgs has (cpu0_plic with gate_bit_reverse set).
EngineCfgs ==
    <<k230_cpu0_src, k230_cpu0_aclk, mul_div_audio, mul_div_codec, mul_div_other,
      [mul_div_audio EXCEPT !.name = "pdm",
                            !.rate_cfg.rate_reg_off = K230_CLK_PDM_CLKDIV_OFFSET],
      [mul_div_audio EXCEPT !.name = "dac",
                            !.rate_cfg.rate_reg_off = K230_CLK_CODEC_DAC_MCLKDIV_OFFSET],
      [k230_cpu0_plic EXCEPT !.name = "reversed",
                             !.gate_cfg = K230_GATE_FORMAT(0, 9, TRUE)]>>

\* The registers those descriptors use, and the contents each may hold.
EngineOffsets ==
    {0, K230_CLK_AUDIO_CLKDIV_OFFSET, K230_CLK_CODEC_ADC_MCLKDIV_OFFSET,
     K230_CLK_CODEC_DAC_MCLKDIV_OFFSET, K230_CLK_PDM_CLKDIV_OFFSET}

EngineImages == {{}, Word, {0, 1, 16, 18}}

\* Rates asked of the engine (4 Hz, a tie for each scan, a usual rate, a rate of both
\* tables, a rate of the audio table alone) and parent rates, one of them above the
\* rates of the tables.
EngineRates == {4, 1000, 300000, 2048000, 128000}
EngineParents == {11, 1033, 1500, 1000000, 2100000}
RecalcParents == {0, 11, 48000}

\* k230_clk_find_approximate as k230_clk_round_rate and k230_clk_set_rate call it: the
\* limits of the descriptor, div = mul = 0 on entry.
FindApproximate(k, rate, parent_rate) ==
    /\ nops < MaxClkOps
    /\ LET cfg == EngineCfgs[k]
           rate_cfg == cfg.rate_cfg
           fa == k230_clk_find_approximate(cfg,
                     rate_cfg.rate_mul_min, rate_cfg.rate_mul_max,
                     rate_cfg.rate_div_min, rate_cfg.rate_div_max,
                     rate_cfg.method, rate, parent_rate, 0, 0, 0)
       IN  last' = [Op("find_approximate", k) EXCEPT !.rate = rate,
                        !.parent_rate = parent_rate, !.ret = fa.ret,
                        !.div = fa.div, !.mul = fa.mul]
    /\ nops' = nops + 1
    /\ UNCHANGED <<pll_regs, regs, pll_last, build, conc>>

\* k230_clk_get_rate (the recalc_rate operation) on one of the descriptors.
RecalcRate(k, parent_rate, ub) ==
    /\ nops < MaxClkOps
    /\ last' = [Op("recalc_rate", k) EXCEPT !.parent_rate = parent_rate,
                    !.ret = k230_clk_get_rate(EngineCfgs[k], regs, parent_rate, ub)]
    /\ nops' = nops + 1
    /\ UNCHANGED <<pll_regs, regs, pll_last, build, conc>>

\* k230_clk_round_rate on one of the descriptors: it reads *parent_rate and stores
\* nothing through the pointer, and accesses no register.
EngineRoundRate(k, rate, parent_rate, ub) ==
    /\ nops < MaxClkOps
    /\ last' = [Op("round_rate", k) EXCEPT !.rate = rate, !.parent_rate = parent_rate,
                    !.ret = k230_clk_round_rate(EngineCfgs[k], rate, parent_rate, ub)]
    /\ nops' = nops + 1
    /\ UNCHANGED <<pll_regs, regs, pll_last, build, conc>>

\* k230_clk_set_rate on one of the descriptors.
EngineSetRate(k, rate, parent_rate) ==
    /\ nops < MaxClkOps
    /\ LET sr == k230_clk_set_rate(EngineCfgs[k], regs, rate, parent_rate)
       IN  /\ regs' = sr.regs
           /\ last' = [Op("set_rate", k) EXCEPT !.rate = rate,
                           !.parent_rate = parent_rate, !.ret = sr.ret,
                           !.div = sr.div, !.mul = sr.mul, !.writes = sr.writes]
    /\ nops' = nops + 1
    /\ UNCHANGED <<pll_regs, pll_last, build, conc>>

\* k230_clk_enable and k230_clk_disable on a descriptor that has a gate.
EngineEnable(k) ==
    /\ nops < MaxClkOps /\ EngineCfgs[k].gate_cfg # NULL
    /\ regs' = k230_clk_enable(EngineCfgs[k], regs)
    /\ last' = [Op("enable", k) EXCEPT !.writes = <<EngineCfgs[k].gate_cfg.gate_reg_off>>]
    /\ nops' = nops + 1
    /\ UNCHANGED <<pll_regs, pll_last, build, conc>>

EngineDisable(k) ==
    /\ nops < MaxClkOps /\ EngineCfgs[k].gate_cfg # NULL
    /\ regs' = k230_clk_disable(EngineCfgs[k], regs)
    /\ last' = [Op("disable", k) EXCEPT !.writes = <<EngineCfgs[k].gate_cfg.gate_reg_off>>]
    /\ nops' = nops + 1
    /\ UNCHANGED <<pll_regs, pll_last, build, conc>>

InitEngine ==
    /\ pll_regs = [q \in PllIds |-> PllReset]
    /\ regs \in {R \in [EngineOffsets -> EngineImages] :
                    R[K230_CLK_AUDIO_CLKDIV_OFFSET] = R[0]
                       /\ R[K230_CLK_PDM_CLKDIV_OFFSET] = R[0]}
    /\ pll_last = NoPllOp
    /\ last = NoOp
    /\ nops = 0
    /\ Built
    /\ ConcIdle

NextEngine ==
    \/ \E k \in 1..Len(EngineCfgs), rate \in EngineRates, parent_rate \in EngineParents :
           FindApproximate(k, rate, parent_rate)
    \/ \E k \in 1..Len(EngineCfgs), parent_rate \in RecalcParents, ub \in DivZeroOutcomes :
           RecalcRate(k, parent_rate, ub)
    \/ \E k \in 1..Len(EngineCfgs), rate \in EngineRates, parent_rate \in EngineParents,
          ub \in DivZeroOutcomes :
           EngineRoundRate(k, rate, parent_rate, ub)
    \/ \E k \in 1..Len(EngineCfgs), rate \in EngineRates, parent_rate \in EngineParents :
           EngineSetRate(k, rate, parent_rate)
    \/ \E k \in 1..Len(EngineCfgs) : EngineEnable(k)
    \/ \E k \in 1..Len(EngineCfgs) : EngineDisable(k)

SpecEngine == InitEngine /\ [][NextEngine]_vars

\* ------------------------------------------------ PLL rate claims
\* The number held in bits lo..hi of a register.
FieldValue(reg, lo, hi) == ValOf({b - lo : b \in reg \cap (lo..hi)})

PllQueried == pll_regs[pll_last.id]

PllBypassed == 19 \in PllQueried.bypass

PllLocked == 0 \in PllQueried.lock

\* floor(parent_rate * F / (R * OD)) with R, F, OD the raw fields + 1, computed
\* without any width limit.
PllExactRate ==
    LET R  == FieldValue(PllQueried.div, 16, 21) + 1
        F  == FieldValue(PllQueried.div, 0, 16) + 1
        OD == FieldValue(PllQueried.div, 24, 27) + 1
    IN  Strip(DivLimbs(MulLimbs(pll_last.parent_rate, F), R * OD).q)

\* C8: with bypass clear and lock set, PLL get_rate returns
\* floor(parent_rate * F / (R * OD)), R, F, OD being the 6-, 17- and 4-bit fields + 1,
\* with nothing lost of the product parent_rate * F.
C8_PllRateFormula ==
    (pll_last.op = "get_rate" /\ ~PllBypassed /\ PllLocked)
        => Strip(pll_last.val) = PllExactRate

\* A rate query of the 24 MHz oscillator on a PLL with R = 64, F = 131072, OD = 16:
\* 3072000000 Hz, 0xB71B0000.
C8_Witness ==
    /\ pll_last.op = "get_rate" /\ ~PllBypassed /\ PllLocked
    /\ pll_last.parent_rate = U64(24000000)
    /\ FieldValue(PllQueried.div, 16, 21) = 63
    /\ FieldValue(PllQueried.div, 0, 16) = 131071
    /\ FieldValue(PllQueried.div, 24, 27) = 15
    /\ Strip(pll_last.val) = <<0, 0, 27, 183>>

\* C9: with the bypass bit set PLL get_rate returns parent_rate, whatever the divider
\* fields and the lock bit hold.
C9_PllBypassPassthrough ==
    (pll_last.op = "get_rate" /\ PllBypassed) => pll_last.val = pll_last.parent_rate

\* A rate query on a bypassed, unlocked PLL whose divider fields are not all zero.
C9_Witness ==
    /\ pll_last.op = "get_rate" /\ PllBypassed /\ ~PllLocked
    /\ PllQueried.div # {}
    /\ pll_last.parent_rate = U64(24000000)
    /\ pll_last.val = U64(24000000)

\* C10: with bypass clear and lock clear PLL get_rate returns 0 and writes no register.
C10_PllUnlockedZero ==
    [][(/\ nops' = nops + 1
        /\ pll_last'.op = "get_rate"
        /\ 19 \notin pll_regs[pll_last'.id].bypass
        /\ 0 \notin pll_regs[pll_last'.id].lock)
           => (pll_last'.val = U64(0) /\ pll_regs' = pll_regs /\ regs' = regs)]_vars

\* A rate query of a non-zero parent rate on an unlocked, not bypassed PLL with maximal
\* divider fields.
C10_Witness ==
    /\ pll_last.op = "get_rate" /\ ~PllBypassed /\ ~PllLocked
    /\ pll_last.parent_rate = U64(24000000)
    /\ FieldValue(PllQueried.div, 0, 16) = 131071
    /\ pll_last.val = U64(0)

\* ------------------------------------------- composite-clock claims
\* The descriptor of the clock the last operation was issued on.
LastCfg == Cfg(last.id)

\* C1: set_rate returns an error and writes no register when target = 0, target >
\* parent_rate, parent_rate = 0 or the clock is read-only: both register windows are
\* left as they were. No declared clock is read-only, so that leg is the same call
\* made on the descriptor with read_only set.
C1_SetRateRejects ==
    [][/\ (/\ nops' = nops + 1
           /\ last'.op = "set_rate"
           /\ (last'.rate = 0 \/ last'.rate > last'.parent_rate \/ last'.parent_rate = 0))
          => (/\ last'.ret < 0
              /\ last'.writes = <<>>
              /\ regs' = regs
              /\ pll_regs' = pll_regs)
       /\ (nops' = nops + 1 /\ last'.op = "set_rate")
          => LET sr == k230_clk_set_rate([Cfg(last'.id) EXCEPT !.read_only = TRUE], regs,
                                         last'.rate, last'.parent_rate)
             IN  sr.ret < 0 /\ sr.writes = <<>> /\ sr.regs = regs]_vars

\* set_rate of a rate above the parent's was rejected with -EINVAL on a window whose
\* registers are not all zero.
C1_Witness ==
    /\ last.op = "set_rate"
    /\ last.rate = 1000001 /\ last.parent_rate = 1000000
    /\ last.ret = -EINVAL
    /\ last.writes = <<>>
    /\ regs[0] = Word

\* C2: right after enable() is_enabled() returns true, right after disable() it
\* returns false, for either gate polarity.
C2_GateReadback ==
    /\ last.op = "enable" => k230_clk_is_enabled(LastCfg, regs) = 1
    /\ last.op = "disable" => k230_clk_is_enabled(LastCfg, regs) = 0

\* C3: for a MulOnly or DivOnly clock and 0 < target <= parent_rate, with
\* r = round_rate(target, parent_rate): set_rate(r, parent_rate) succeeds and get_rate
\* then returns r.
C3_RoundSetGet ==
    (/\ last.op = "round_rate"
     /\ LastCfg.rate_cfg.method \in {K230_MUL, K230_DIV}
     /\ 0 < last.rate /\ last.rate <= last.parent_rate)
        => LET sr == k230_clk_set_rate(LastCfg, regs, last.ret, last.parent_rate)
           IN  /\ sr.ret = 0
               /\ k230_clk_get_rate(LastCfg, sr.regs, last.parent_rate, 0) = last.ret

\* The rate of the (div, mul) the engine yields for the last set_rate.
EngineRate ==
    LET rate_cfg == LastCfg.rate_cfg
        fa == k230_clk_find_approximate(LastCfg,
                  rate_cfg.rate_mul_min, rate_cfg.rate_mul_max,
                  rate_cfg.rate_div_min, rate_cfg.rate_div_max,
                  rate_cfg.method, last.rate, last.parent_rate, 0, 0, 0)
    IN  (last.parent_rate * fa.mul) \div fa.div

SetRateSucceeded == last.op = "set_rate" /\ last.ret >= 0

C5_MuxReadback ==
    (last.op = "set_parent" /\ last.index < LastCfg.num_parent)
        => k230_clk_get_parent(LastCfg, regs) = last.index

\* ------------------------------------------------ graph-build claims
\* The lookup service finds no clock: every request ends in an error.
NothingFound ==
    /\ <<"provider", 0>> \notin Range(devres)
    /\ last.op = "lookup" => last.ret < 0

\* C6: when a registration fails during the build, the build returns an error and
\* afterwards nothing is registered and the lookup by index finds no clock; a mux
\* clock declared with one parent makes the build fail.
C6_FailedBuildLeavesNothing ==
    /\ pc \in {"unwind", "failed"} => (probe_ret < 0 /\ NothingFound)
    /\ pc = "failed" => devres = <<>>
    /\ mux_parents < 2 => (pc # "done" /\ NothingFound)

\* The build of the table whose mux clock has one parent failed with -EINVAL after
\* clocks had been registered, all were released, and a lookup of a declared clock
\* was refused.
C6_Witness ==
    /\ pc = "failed" /\ mux_parents = 1 /\ probe_ret = -EINVAL
    /\ cfg_ptr.clk # {}
    /\ devres = <<>>
    /\ last.op = "lookup" /\ last.id = K230_CPU0_SRC /\ last.index = 1 /\ last.ret < 0

\* C7: registering a mux clock fails with -EINVAL, the clock not registered, when its
\* declared parent count is below 2; with 2 or more parents the registration is that of
\* the framework call and the clock is registered when that succeeds.
C7_MuxNeedsTwoParents ==
    [][/\ (pc = "clks" /\ idx = K230_HS_OSPI_SRC /\ (pc' # pc \/ idx' # idx))
          => IF mux_parents < 2
             THEN /\ pc' = "unwind" /\ probe_ret' = -EINVAL
                  /\ devres' = devres /\ cfg_ptr' = cfg_ptr
             ELSE \/ pc' = "unwind" /\ probe_ret' = -ENOMEM /\ devres' = devres
                  \/ /\ pc' = "clks" /\ idx' = idx + 1
                     /\ devres' = Append(devres, <<"clk", idx>>)
                     /\ idx \in cfg_ptr'.clk
       /\ \A n \in 0..K230_CLK_MAX_PARENT_NUM :
             k230_register_clk(k230_hs_ospi_src, n, 0) = IF n < 2 THEN -EINVAL ELSE 0]_vars

\* The build reached the mux clock declared with one parent and failed there with
\* -EINVAL, the clock not registered.
C7_Witness ==
    /\ mux_parents = 1
    /\ pc = "unwind" /\ idx = K230_HS_OSPI_SRC /\ probe_ret = -EINVAL
    /\ K230_HS_OSPI_SRC \notin cfg_ptr.clk
    /\ <<"clk", K230_HS_OSPI_SRC>> \notin Range(devres)
    /\ <<"clk", K230_PMU_PCLK>> \in Range(devres)

\* ------------------------------------------------- engine claims
\* The descriptor the last engine call was made on, and its rate limits.
EngineCfg == EngineCfgs[last.id].rate_cfg

EngineCalled(method) == last.op = "find_approximate" /\ EngineCfg.method = method

PerfectDivide == (last.parent_rate * 1000) \div last.rate

\* The deviation of multiplier m, and of divider d.
MulDeviation(m) == Abs(PerfectDivide - ((EngineCfg.rate_div_max * 1000) \div m))
DivDeviation(d) == Abs(PerfectDivide - ((d * 1000) \div EngineCfg.rate_mul_max))

\* C11: for method K230_MUL the engine returns div = div_max and the smallest
\* multiplier of [mul_min, mul_max] whose deviation
\* |floor(parent_rate * 1000 / target) - floor(div_max * 1000 / m)| is the least: of two
\* multipliers with equal deviation the smaller one.
C11_MulOnlySmallestBest ==
    EngineCalled(K230_MUL)
        => /\ last.ret = 0
           /\ last.div = EngineCfg.rate_div_max
           /\ last.mul \in EngineCfg.rate_mul_min..EngineCfg.rate_mul_max
           /\ \A m \in EngineCfg.rate_mul_min..EngineCfg.rate_mul_max :
                 /\ MulDeviation(last.mul) <= MulDeviation(m)
                 /\ MulDeviation(m) = MulDeviation(last.mul) => last.mul <= m

\* The engine was asked for 1000 Hz of a 1033 Hz parent: multipliers 15 and 16 deviate
\* equally, 15 is returned.
C11_Witness ==
    /\ EngineCalled(K230_MUL)
    /\ last.rate = 1000 /\ last.parent_rate = 1033
    /\ MulDeviation(15) = MulDeviation(16)
    /\ last.mul = 15 /\ last.div = 16

\* C12: for method K230_DIV the engine returns mul = mul_max and the smallest divider
\* of [div_min, div_max] whose deviation
\* |floor(parent_rate * 1000 / target) - floor(d * 1000 / mul_max)| is the least, div_min
\* being kept unless a later divider is strictly better.
C12_DivOnlySmallestBest ==
    EngineCalled(K230_DIV)
        => /\ last.ret = 0
           /\ last.mul = EngineCfg.rate_mul_max
           /\ last.div \in EngineCfg.rate_div_min..EngineCfg.rate_div_max
           /\ \A d \in EngineCfg.rate_div_min..EngineCfg.rate_div_max :
                 /\ DivDeviation(last.div) <= DivDeviation(d)
                 /\ DivDeviation(d) = DivDeviation(last.div) => last.div <= d

\* The engine was asked for 1000 Hz of a 1500 Hz parent: dividers 1 and 2 deviate
\* equally, div_min = 1 is returned.
C12_Witness ==
    /\ EngineCalled(K230_DIV)
    /\ last.rate = 1000 /\ last.parent_rate = 1500
    /\ DivDeviation(1) = DivDeviation(2)
    /\ last.div = 1 /\ last.mul = 1

\* The (mul, div) pair the method rules give for the descriptor of the last
\* recalc_rate, read from the registers bit by bit.
RecalcPair ==
    LET cfg == EngineCfgs[last.id]
        rc  == cfg.rate_cfg
        reg == regs[rc.rate_reg_off]
        Field(r, shift, mask) ==
            ValOf({b - shift : b \in {x \in r : x >= shift /\ x - shift <= 30 /\ 2 ^ (x - shift) <= mask}})
    IN  CASE rc.method = K230_MUL ->
               [mul |-> Field(reg, rc.rate_div_shift, rc.rate_div_mask) + 1,
                div |-> rc.rate_div_max]
          [] rc.method = K230_DIV ->
               [mul |-> rc.rate_mul_max,
                div |-> Field(reg, rc.rate_div_shift, rc.rate_div_mask) + 1]
          [] OTHER ->
               [mul |-> IF cfg.rate_cfg_c = NULL
                        THEN Field(reg, rc.rate_mul_shift, rc.rate_mul_mask)
                        ELSE Field(regs[cfg.rate_cfg_c.rate_reg_off_c],
                                   cfg.rate_cfg_c.rate_mul_shift_c,
                                   cfg.rate_cfg_c.rate_mul_mask_c),
                div |-> Field(reg, rc.rate_div_shift, rc.rate_div_mask)]

\* C13: get_rate(parent_rate) returns floor(parent_rate * mul / div), (mul, div) being
\* (field + 1, div_max) for K230_MUL, (mul_max, field + 1) for K230_DIV and the two
\* fields as read for K230_MUL_DIV, the multiplier from the secondary register when
\* there is one.  A divisor field of 0 in K230_MUL_DIV leaves the result undefined.
C13_GetRateFormula ==
    (last.op = "recalc_rate" /\ RecalcPair.div # 0)
        => last.ret = (last.parent_rate * RecalcPair.mul) \div RecalcPair.div

\* The rate of the codec descriptor was recalculated with different multiplier fields
\* in its primary and its secondary register.
C13_Witness ==
    /\ last.op = "recalc_rate" /\ EngineCfgs[last.id] = mul_div_codec
    /\ regs[K230_CLK_CODEC_ADC_MCLKDIV_OFFSET] = {0, 1, 16, 18}
    /\ regs[K230_CLK_CODEC_DAC_MCLKDIV_OFFSET] = Word
    /\ last.parent_rate = 48000
    /\ RecalcPair = [mul |-> 511, div |-> 3]
    /\ last.ret = 8176000

\* ------------------------------------------------- lookup claims
\* C16: the lookup by index returns a clock handle only for an index whose clock was
\* built and registered; for an index at or beyond the table size, an index of the
\* table without a descriptor, or a request without exactly one argument, it returns
\* an error.
C16_LookupOnlyRegistered ==
    last.op = "lookup"
        => (last.ret >= 0 <=> (last.index = 1 /\ <<"clk", last.id>> \in Range(devres)))

\* -------------------------------------------- concurrency claims
\* Context c holds the clock-bank lock: it is between the guard and the return of an
\* operation of the main window.
ClkCritical(c) == ~IsPllOp(ctx[c].op) /\ ctx[c].pc \in {"read", "write", "unlock"}

\* This step is a step of context c.
StepOf(c) == ctx'[c] # ctx[c]

\* C14: operations issued concurrently on clocks of the main window take the register
\* accesses of each as a block: no two contexts are between guard and return at once,
\* what a context read is still in the registers when it writes, and each write leaves
\* the window as the whole operation applied to the window at that moment does, so the
\* contents are those of the operations run one after the other in the order of their
\* writes.
C14_OperationsSerialised ==
    /\ [](\A c, d \in Contexts : (c # d /\ ClkCritical(c)) => ~ClkCritical(d))
    /\ [](\A c \in Contexts :
             /\ ClkCritical(c) => clk_lock = c
             /\ (ClkCritical(c) /\ ctx[c].pc = "write" /\ ctx[c].tmp # <<>> /\ ctx[c].nwrites = 0)
                   => ctx[c].tmp = regs)
    /\ [][\A c \in Contexts :
             (StepOf(c) /\ ~IsPllOp(ctx[c].op) /\ ctx[c].pc = "write")
                => regs' = [regs EXCEPT ![Head(ctx[c].todo)] =
                                     ClkEffect(CallOf(c), regs)[Head(ctx[c].todo)]]]_vars

\* Thread t1 is about to write register 0x0 in set_rate of cpu0_src while thread t2
\* spins on the lock in enable of the same clock, a third operation having completed.
C14_Witness ==
    /\ clk_lock = "t1"
    /\ ctx["t1"].op = "clk_set_rate" /\ ctx["t1"].pc = "write"
    /\ ctx["t1"].todo = <<0>>
    /\ ctx["t2"].op = "clk_enable" /\ ctx["t2"].pc = "lock"
    /\ nops = 3

\* The lock the context is taking or holding.
LockOf(c) == IF IsPllOp(ctx[c].op) THEN pll_lock ELSE clk_lock

\* C15: the locks are held with local interrupts disabled, so no interrupt handler
\* ever spins on a lock held by the thread it interrupted.
C15_NoIrqSelfDeadlock ==
    ~(ctx["irq"].pc = "lock" /\ LockOf("irq") = "t1")

\* ------------------------------------------------ PLL gate claims
\* Context c is in k230_pll_enable (k230_pll_disable) on the PLL whose gate register
\* is gate, between guard and return.
InPllOp(c, op) == ctx[c].op = op /\ ctx[c].pc \in {"check", "read", "write", "unlock"}

GateOf(c) == pll_regs[ctx[c].id].gate

\* C17: PLL enable() writes nothing when the gate-enable bit is already set; otherwise
\* it writes the gate register once, gate-enable and gate-write-enable set and every
\* other bit as read; check and write are inside one critical section of the PLL
\* lock; when enable() returns the PLL reads as enabled.
C17_PllEnableIdempotent ==
    /\ [](\A c \in Contexts : InPllOp(c, "pll_enable") => pll_lock = c)
    /\ [](\A c \in Contexts :
             (ctx[c].op = "pll_enable" /\ ctx[c].pc = "unlock")
                => /\ 2 \in GateOf(c)
                   /\ ctx[c].nwrites = IF 2 \in ctx[c].tmp.gate THEN 0 ELSE 1)
    /\ [][\A c \in Contexts :
             (StepOf(c) /\ ctx[c].op = "pll_enable")
                => IF ctx[c].pc = "write"
                   THEN pll_regs' = [pll_regs EXCEPT ![ctx[c].id].gate = @ \cup {2, 18}]
                   ELSE pll_regs' = pll_regs]_vars

\* Thread t2 has enabled PLL 0, whose gate register was 0, with one write, while thread
\* t1 waits for the PLL lock to disable it.
C17_Witness ==
    /\ ctx["t2"].op = "pll_enable" /\ ctx["t2"].pc = "unlock"
    /\ ctx["t2"].nwrites = 1
    /\ pll_regs[0].gate = {2, 18}
    /\ ctx["t1"].op = "pll_disable" /\ ctx["t1"].pc = "lock"

\* C18: PLL disable() writes the gate register, under the PLL lock, with
\* (old & ~gate-enable) | gate-write-enable, whatever the gate held; afterwards the PLL
\* reads as disabled.
C18_PllDisable ==
    /\ [](\A c \in Contexts : InPllOp(c, "pll_disable") => pll_lock = c)
    /\ [](\A c \in Contexts :
             (ctx[c].op = "pll_disable" /\ ctx[c].pc = "unlock")
                => (2 \notin GateOf(c) /\ 18 \in GateOf(c) /\ ctx[c].nwrites = 1))
    /\ [][\A c \in Contexts :
             (StepOf(c) /\ ctx[c].op = "pll_disable")
                => IF ctx[c].pc = "write"
                   THEN pll_regs' = [pll_regs EXCEPT ![ctx[c].id].gate = (@ \ {2}) \cup {18}]
                   ELSE pll_regs' = pll_regs]_vars

\* The interrupt handler has disabled PLL 0, whose gate register held all ones.
C18_Witness ==
    /\ ctx["irq"].op = "pll_disable" /\ ctx["irq"].pc = "unlock"
    /\ pll_regs[0].gate = Word \ {2}
    /\ ctx["irq"].tmp.gate = Word

\* ---------------------------------------------- PLL lock wait
\* The lock-status bit of the PLL being registered is set.
LockBitSet == (pll_regs[idx].lock \cap {0}) # {}

\* C19: the lock wait of a PLL returns only after reading the lock-status bit as set;
\* when the hardware sets (and keeps) the bit the wait returns, under fair scheduling;
\* when the bit is never set the wait goes on for ever.
C19_LockWait ==
    /\ [][(pc = "pll_prepare" /\ pc' # "pll_prepare") => LockBitSet]_vars
    /\ (pc = "pll_prepare" /\ idx \in hw_locks) ~> (pc # "pll_prepare")
    /\ []((pc = "pll_prepare" /\ ~LockBitSet /\ idx \notin hw_locks) => [](pc = "pll_prepare"))

\* The probe waits for PLL 3, enabled by the boot firmware and not yet locked, after
\* registering PLLs 0 to 2; the hardware is going to lock.
C19_Witness ==
    /\ pc = "pll_prepare" /\ idx = 3
    /\ ~LockBitSet
    /\ hw_locks = PllIds
    /\ cfg_ptr.pll = {0, 1, 2}

\* The probe takes up the registration of PLL idx, up to the lock wait when there
\* is one.
PllRegistrationStep == pc = "plls" /\ (pc' # "plls" \/ idx' # idx)

\* The lock wait of PLL idx ends.
PllWaitEnds == pc = "pll_prepare" /\ pc' # "pll_prepare"

\* C20: k230_pll_init on a PLL whose gate-enable bit is set counts the PLL prepared
\* and enabled without writing a PLL register (neither while it waits for lock nor
\* when the wait ends); on a PLL whose gate-enable bit is clear it changes neither
\* the counts nor the registers.
C20_PllInitSyncsCounts ==
    [][/\ (PllRegistrationStep \/ PllWaitEnds) => pll_regs' = pll_regs
       /\ PllRegistrationStep
            => /\ pll_count' = pll_count
               /\ (2 \in pll_regs[idx].gate) <=> (pc' = "pll_prepare")
       /\ PllWaitEnds
            => /\ 2 \in pll_regs[idx].gate
               /\ pc' # "unwind" =>
                     pll_count' = [pll_count EXCEPT ![idx] = [prepare |-> 1, enable |-> 1]]
       /\ (pc = "pll_prepare" /\ pc' = "pll_prepare")
            => (pll_count' = pll_count /\ pll_regs'[idx].gate = pll_regs[idx].gate)
      ]_vars

\* PLL 2 was found with its gate-enable bit clear and is registered with no count,
\* next to PLLs found enabled and counted once; no gate register has changed.
C20_Witness ==
    /\ pc = "pll_divs"
    /\ pll_count[2] = [prepare |-> 0, enable |-> 0]
    /\ pll_count[1] = [prepare |-> 1, enable |-> 1]
    /\ pll_regs[2].gate = {}
    /\ pll_regs[1].gate = {2}

\* ------------------------------------------ rate operation claims
\* The step is a call of operation op on one of the descriptors of EngineCfgs.
EngineStep(op) == nops' = nops + 1 /\ last'.op = op

\* The engine's answer to the request recorded in record l.
EngineAnswer(l) ==
    LET rate_cfg == EngineCfgs[l.id].rate_cfg
    IN  k230_clk_find_approximate(EngineCfgs[l.id],
            rate_cfg.rate_mul_min, rate_cfg.rate_mul_max,
            rate_cfg.rate_div_min, rate_cfg.rate_div_max,
            rate_cfg.method, l.rate, l.parent_rate, 0, 0, 0)

MulDivAt(l, offs) ==
    /\ EngineCfgs[l.id].rate_cfg.method = K230_MUL_DIV
    /\ EngineCfgs[l.id].rate_cfg.rate_reg_off \in offs

\* C22: for method K230_MUL_DIV the engine returns the (div, mul) of the table entry
\* whose rate is the target, the codec table for register 0x38 or 0x3c, the audio/PDM
\* table for register 0x34 or 0x40; for a register of neither table it fails with
\* -EINVAL, and set_rate returns an error and writes no register.
C22_MulDivTables ==
    /\ [](last.op = "find_approximate" =>
            /\ MulDivAt(last, {56, 60}) =>
                 \A j \in 1..9 : last.rate = codec_clk[j] =>
                     (last.ret = 0 /\ <<last.div, last.mul>> = codec_div[j])
            /\ MulDivAt(last, {52, 64}) =>
                 \A j \in 1..20 : last.rate = pdm_clk[j] =>
                     (last.ret = 0 /\ <<last.div, last.mul>> = pdm_div[j])
            /\ MulDivAt(last, (0..255) \ {52, 56, 60, 64}) => last.ret = -22)
    /\ [][(EngineStep("set_rate") /\ MulDivAt(last', (0..255) \ {52, 56, 60, 64}))
             => (last'.ret < 0 /\ last'.writes = <<>> /\ regs' = regs)]_vars

\* The engine asked for 2048000 Hz on the audio descriptor (register 0x34) answers with
\* entry 10 of the audio/PDM table, 16/3125.
C22_Witness ==
    /\ last.op = "find_approximate" /\ last.id = 3
    /\ last.rate = 2048000
    /\ last.div = 3125 /\ last.mul = 16 /\ last.ret = 0

\* C23: for method K230_MUL_DIV, a register of one of the two tables and a target that
\* is in neither column of rates of that table, the engine returns 0 and leaves
\* (div, mul) as the caller set them, (0, 0).
C23_MulDivNoMatchSucceeds ==
    last.op = "find_approximate" =>
       /\ (MulDivAt(last, {56, 60}) /\ \A j \in 1..9 : last.rate # codec_clk[j])
             => (last.ret = 0 /\ last.div = 0 /\ last.mul = 0)
       /\ (MulDivAt(last, {52, 64}) /\ \A j \in 1..20 : last.rate # pdm_clk[j])
             => (last.ret = 0 /\ last.div = 0 /\ last.mul = 0)

\* The engine asked for 128000 Hz, a rate of the audio/PDM table alone, on the codec
\* descriptor.
C23_Witness ==
    /\ last.op = "find_approximate" /\ last.id = 4
    /\ last.rate = 128000
    /\ last.ret = 0 /\ last.div = 0 /\ last.mul = 0

\* The bit positions of the field of mask mask at shift shift, and the image of value
\* val stored in that field.
FieldBits(shift, mask) == {shift + b : b \in BitsOf(mask)}
Placed(val, shift, mask) == {shift + b : b \in BitsOf(val) \cap BitsOf(mask)}

\* The primary register of rate_cfg as the write protocol leaves it: old is the value
\* read, (div, mul) the engine's pair.
PrimaryAfterSetRate(rate_cfg, old, div, mul) ==
    LET div_field == FieldBits(rate_cfg.rate_div_shift, rate_cfg.rate_div_mask)
        mul_field == FieldBits(rate_cfg.rate_mul_shift, rate_cfg.rate_mul_mask)
        we        == {rate_cfg.rate_write_enable_bit}
    IN  CASE rate_cfg.method = K230_DIV ->
               ((old \ div_field) \ mul_field)
                  \cup Placed(div - 1, rate_cfg.rate_div_shift, rate_cfg.rate_div_mask) \cup we
          [] rate_cfg.method = K230_MUL ->
               (old \ div_field)
                  \cup Placed(mul - 1, rate_cfg.rate_div_shift, rate_cfg.rate_div_mask) \cup we
          [] rate_cfg.method = K230_MUL_DIV ->
               ((old \ div_field) \ mul_field)
                  \cup Placed(div, rate_cfg.rate_div_shift, rate_cfg.rate_div_mask)
                  \cup Placed(mul, rate_cfg.rate_mul_shift, rate_cfg.rate_mul_mask) \cup we

\* C26: a successful set_rate on a descriptor without a secondary register writes one
\* register, the primary one, with the value read in which the divisor field holds
\* div - 1 and the multiplier field is cleared (K230_DIV), the divisor field holds
\* mul - 1 (K230_MUL), or the divisor field holds div and the multiplier field mul
\* (K230_MUL_DIV), the write-enable bit is set and every other bit is as read.
C26_SetRateOneWrite ==
    [][(EngineStep("set_rate") /\ last'.ret = 0 /\ EngineCfgs[last'.id].rate_cfg_c = NULL)
          => LET rate_cfg == EngineCfgs[last'.id].rate_cfg
                 off      == rate_cfg.rate_reg_off
             IN  /\ last'.writes = <<off>>
                 /\ \A o \in EngineOffsets \ {off} : regs'[o] = regs[o]
                 /\ (last'.div > 0 /\ last'.mul > 0) =>
                       regs'[off] = PrimaryAfterSetRate(rate_cfg, regs[off],
                                                        last'.div, last'.mul)]_vars

\* ----------------------------------------- gate and mux claims
\* C24: enable on a gate leaves its register with the gate bit set when the gate is
\* not reversed and cleared when it is; disable leaves it cleared when the gate is not
\* reversed and set when it is; every other bit of the register and every other
\* register is as before.
C24_GateFrame ==
    [][(EngineStep("enable") \/ EngineStep("disable"))
          => LET gate_cfg == EngineCfgs[last'.id].gate_cfg
                 sets     == (last'.op = "enable") # gate_cfg.gate_bit_reverse
             IN  /\ regs' = [regs EXCEPT ![gate_cfg.gate_reg_off] =
                                IF sets THEN @ \cup {gate_cfg.gate_bit_enable}
                                ELSE @ \ {gate_cfg.gate_bit_enable}]
                 /\ pll_regs' = pll_regs]_vars

\* enable on the reversed gate at bit 9 of register 0x0, which held all ones: bit 9 is
\* cleared, the gate bit of cpu0_src (bit 0) and the rate fields stay.
C24_Witness ==
    /\ last.op = "enable" /\ last.id = 8
    /\ regs[0] = Word \ {9}
    /\ regs[60] = {0, 1, 16, 18}

\* The step is a call of operation op on a clock of k230_clk_cfgs.
ClkStep(op) == nops' = nops + 1 /\ last'.op = op /\ last'.id \in ClkIds

\* C25: set_parent(i) leaves the mux register with i & mask in the mux field at its
\* shift and every bit outside the field as before, whatever the gate holds; no other
\* register changes.
C25_SetParentFrame ==
    [][ClkStep("set_parent")
          => LET mux_cfg == Cfg(last'.id).mux_cfg
             IN  regs' = [regs EXCEPT ![mux_cfg.mux_reg_off] =
                            (@ \ FieldBits(mux_cfg.mux_reg_shift, mux_cfg.mux_reg_mask))
                               \cup Placed(last'.index, mux_cfg.mux_reg_shift,
                                           mux_cfg.mux_reg_mask)]]_vars

\* ------------------------------------- two-register rate change
\* Context c is in k230_clk_set_rate on the codec descriptor, whose multiplier is in the
\* secondary register 0x3c and whose divisor is in the primary register 0x38.
InCodecSetRate(c) == ctx[c].op = "clk_set_rate" /\ ctx[c].id = LockCodecId

\* C27: a successful set_rate on a descriptor with a secondary register reads both
\* registers, then writes the secondary register (multiplier field = mul, its
\* write-enable bit set) and after it the primary register (divisor field = div), the
\* reads and both writes under one hold of the clock-bank lock, no other context
\* reading or writing the window in between.
C27_SecondaryBeforePrimary ==
    /\ [](\A c \in Contexts :
             (InCodecSetRate(c) /\ ctx[c].pc \in {"read", "write", "unlock"})
                => /\ clk_lock = c
                   /\ \A d \in Contexts \ {c} : ~ClkCritical(d)
                   /\ ctx[c].pc = "read" => (ctx[c].nwrites = 0 /\ ctx[c].todo = <<60, 56>>)
                   /\ ctx[c].pc = "write" =>
                        \/ ctx[c].nwrites = 0 /\ ctx[c].todo = <<60, 56>> /\ regs = ctx[c].tmp
                        \/ /\ ctx[c].nwrites = 1 /\ ctx[c].todo = <<56>>
                           /\ \A o \in LockOffsets \ {60} : regs[o] = ctx[c].tmp[o]
                   /\ ctx[c].pc = "unlock" => ctx[c].nwrites = 2)
    /\ [][\A c \in Contexts :
             (StepOf(c) /\ InCodecSetRate(c))
                => CASE ctx[c].pc = "read" ->
                          ctx'[c].tmp = regs /\ regs' = regs
                     [] ctx[c].pc = "write" /\ ctx[c].nwrites = 0 ->
                          regs' = [regs EXCEPT ![60] =
                                      (ctx[c].tmp[60] \ FieldBits(14, 511))
                                         \cup Placed(16, 14, 511) \cup {30}]
                     [] ctx[c].pc = "write" /\ ctx[c].nwrites = 1 ->
                          regs' = [regs EXCEPT ![56] =
                                      (ctx[c].tmp[56] \ FieldBits(0, 16383))
                                         \cup Placed(3125, 0, 16383)]
                     [] OTHER -> regs' = regs]_vars

\* Thread t2 has written the secondary register (multiplier 16, write enable) and not
\* yet the primary one; thread t1 spins on the lock in enable of cpu0_src.
C27_Witness ==
    /\ InCodecSetRate("t2") /\ ctx["t2"].pc = "write" /\ ctx["t2"].nwrites = 1
    /\ regs[60] = {18, 30}
    /\ regs[56] = {}
    /\ ctx["t1"].op = "clk_enable" /\ ctx["t1"].pc = "lock"

\* C28: no context holds the PLL lock and the clock-bank lock at once, and a context
\* that is outside every operation (it has not called, or its operation has returned,
\* also by the returns of is_enabled and get_rate inside the guarded scope) holds no
\* lock.
C28_LocksDisjointAndReleased ==
    \A c \in Contexts :
        /\ ~(clk_lock = c /\ pll_lock = c)
        /\ ctx[c].pc \in {"idle", "lock"} => (clk_lock # c /\ pll_lock # c)

\* The interrupt handler holds the PLL lock in pll_disable while the thread it
\* interrupted is not in an operation, thread t2 holds the clock-bank lock, and one
\* is_enabled has returned.
C28_Witness ==
    /\ pll_lock = "irq" /\ clk_lock = "t2"
    /\ ctx["t1"].pc = "idle"
    /\ ctx["t2"].op = "clk_is_enabled" /\ ctx["t2"].pc = "unlock"
    /\ nops = 3

\* ------------------------------------------- build order claims
\* The PLL a fixed divider names as its parent.
PllOfDiv(i) ==
    CHOOSE p \in PllIds :
        k230_pll_div_cfgs[i].parent_name = <<"pll0", "pll1", "pll2", "pll3">>[p + 1]

\* What was registered before the n-th registration.
RegisteredBefore(n) == {devres[m] : m \in 1..(n - 1)}

\* The registration a parent reference stands for; the 24 MHz oscillator is not a clock
\* of this driver.
ParentEntry(par) ==
    CASE par.type = K230_PLL -> {<<"pll", par.ref>>}
      [] par.type = K230_PLL_DIV -> {<<"pll_div", par.ref>>}
      [] par.type = K230_CLK_COMPOSITE -> {<<"clk", par.ref>>}
      [] OTHER -> {}

\* C29: whenever a clock is registered its parents are: the four PLLs before any fixed
\* divider, every fixed divider before any composite clock, and the composite parent of
\* a composite clock before the clock, as it has a smaller index in k230_clk_cfgs.
C29_ParentsFirst ==
    /\ \A n \in 1..Len(devres) :
          LET e == devres[n]
          IN  /\ e[1] = "pll_div" =>
                    /\ <<"pll", PllOfDiv(e[2])>> \in RegisteredBefore(n)
                    /\ \A p \in PllIds : <<"pll", p>> \in RegisteredBefore(n)
              /\ e[1] = "clk" =>
                    /\ \A d \in 0..(K230_PLL_DIV_NUM - 1) :
                           <<"pll_div", d>> \in RegisteredBefore(n)
                    /\ \A k \in 1..Len(Cfg(e[2]).parent) :
                           ParentEntry(Cfg(e[2]).parent[k]) \subseteq RegisteredBefore(n)
    /\ \A i \in ClkIds :
          \A k \in 1..Len(Cfg(i).parent) :
              Cfg(i).parent[k].type = K230_CLK_COMPOSITE =>
                  (Cfg(i).parent[k].ref \in ClkIds /\ Cfg(i).parent[k].ref < i)

\* cpu0_plic, a child of the composite clock cpu0_src, has just been registered.
C29_Witness ==
    /\ pc = "clks"
    /\ devres # <<>>
    /\ devres[Len(devres)] = <<"clk", 2>>
    /\ Cfg(2).parent[1] = [type |-> K230_CLK_COMPOSITE, ref |-> 0]

\* k230_clk_probe has returned, 0 or an error.
ProbeReturned == pc \in {"done", "failed"}

\* Every PLL found enabled has its lock-status bit set or gets it from the hardware.
EnabledPllsLock ==
    \A p \in PllIds :
        (2 \in pll_regs[p].gate) => (0 \in pll_regs[p].lock \/ p \in hw_locks)

\* C30 as stated: the graph build terminates, with success or with an error, whatever
\* the PLL registers hold, also when a PLL found enabled never has its lock-status bit
\* set.
C30_BuildTerminates == <>ProbeReturned

\* C30: the graph build terminates, with success or with an error, when every PLL
\* found enabled has or gets its lock-status bit; once it waits for a PLL whose bit is
\* never set it does not terminate.
C30_BuildTerminatesIfPllsLock ==
    /\ EnabledPllsLock => <>ProbeReturned
    /\ []((pc = "pll_prepare" /\ ~LockBitSet /\ idx \notin hw_locks) => [](~ProbeReturned))

\* The build has returned 0 on hardware that locks its PLLs: PLL 3 was found disabled
\* and is not counted, the other PLLs are counted prepared and enabled.
C30_Witness ==
    /\ pc = "done" /\ probe_ret = 0
    /\ hw_locks = PllIds
    /\ pll_regs[3].gate = {}
    /\ \A p \in PllIds \ {3} : pll_count[p] = [prepare |-> 1, enable |-> 1]

\* ------------------------------------------ programmed divisor
\* The divisor k230_clk_get_rate divides by for descriptor cfg when the window holds R:
\* rate_div_max (K230_MUL), the divisor field plus one (K230_DIV), the divisor field
\* (K230_MUL_DIV).
EffectiveDiv(cfg, R) ==
    LET rate_cfg == cfg.rate_cfg
        field == ValOf({b - rate_cfg.rate_div_shift :
                           b \in R[rate_cfg.rate_reg_off]
                                   \cap FieldBits(rate_cfg.rate_div_shift,
                                                  rate_cfg.rate_div_mask)})
    IN  CASE rate_cfg.method = K230_MUL -> rate_cfg.rate_div_max
          [] rate_cfg.method = K230_DIV -> field + 1
          [] rate_cfg.method = K230_MUL_DIV -> field

\* C31: after a set_rate that returned success, get_rate of that descriptor divides by
\* a divisor of at least 1, and round_rate never divides by 0: the pair of a successful
\* engine answer has div >= 1; for the three methods.
C31_DivisorAtLeastOne ==
    /\ (last.op = "set_rate" /\ last.ret = 0) => EffectiveDiv(EngineCfgs[last.id], regs) >= 1
    /\ (last.op = "round_rate" /\ EngineAnswer(last).ret = 0) => EngineAnswer(last).div >= 1

\* C32: a successful set_rate ends with a write of the primary register that has the
\* primary write-enable bit set, with or without a secondary register, whatever the
\* bit was in the register read.
C32_PrimaryWriteEnable ==
    [][(EngineStep("set_rate") /\ last'.ret = 0)
          => LET rate_cfg == EngineCfgs[last'.id].rate_cfg
             IN  /\ last'.writes # <<>>
                 /\ last'.writes[Len(last'.writes)] = rate_cfg.rate_reg_off
                 /\ rate_cfg.rate_write_enable_bit \in regs'[rate_cfg.rate_reg_off]]_vars

====
